---- MODULE Spec2Model ----
(***************************************************************************)
(* Model of the Foculatics site counter: the DomainDB visit store on top   *)
(* of IndexedDB (background script), the webNavigation classifier and the  *)
(* message handlers that call the store.                                   *)
(*                                                                         *)
(* IndexedDB is modelled as the platform gives it to the code: every       *)
(* transaction is queued in creation order, a transaction starts only when *)
(* no earlier live transaction conflicts with it (overlapping scope, one   *)
(* of them readwrite), its requests run one at a time in the order they    *)
(* were placed, its writes become visible to others at commit, and an      *)
(* error event on a request whose handler does not call preventDefault()   *)
(* aborts the transaction and discards its writes. A transaction whose     *)
(* requests have all succeeded commits.                                    *)
(*                                                                         *)
(* Timestamps are the integers new Date() stands for; toISOString() gives  *)
(* fixed-width text, so the order of the strings the code compares is the  *)
(* order of these integers. The wall clock never runs backwards.           *)
(***************************************************************************)
EXTENDS Integers, Sequences, FiniteSets, TLC

(***************************************************************************)
(* Bounds of the model.                                                    *)
(***************************************************************************)
MaxClock == 2      \* the wall clock runs over 0..MaxClock
MaxCalls == 4      \* store calls started in one behaviour of Spec
MaxNavCalls == 2   \* store calls started in one behaviour of SpecNav, SpecVisit
MaxLive == 2       \* store calls in flight at the same time

Domains == {"a.com", "b.com"}

(***************************************************************************)
(* Program constants.                                                      *)
(***************************************************************************)
AggregateOnlyVersion == 1
FullSchemaVersion == 2

VARIABLES
  version,          \* this.version of the build that runs
  db,               \* this.db is not null
  trackingEnabled,  \* the background script's flag
  clock,            \* what new Date() returns now
  domains,          \* committed rows of the 'domains' object store, by key
  visits,           \* committed rows of the 'visits' object store
  nextId,           \* key generator of the 'visits' object store
  opening,          \* calls awaiting their indexedDB.open request, in order
  txs,              \* live transactions in creation order
  budget,           \* store calls that may still be started
  nav,              \* the tab's navigation event and its last delivery to the listener
  lastDone,         \* the last store call whose transaction ended
  okLog,            \* per domain, the timestamps of the recordVisit calls
                    \* that succeeded since the store was last cleared
  tz,               \* seconds the local time zone is ahead of UTC
  query,            \* the period query or badge update in progress, or its result
  page,             \* the content script's page instance
  app,              \* the popup's App component: its list state and its dialogs
  storage           \* chrome.storage.local: trackingEnabled, and whether the
                    \* background script has loaded it

vars == <<version, db, trackingEnabled, clock, domains, visits, nextId,
          opening, txs, budget, nav, lastDone, okLog, tz, query, page, app, storage>>

(***************************************************************************)
(* Values.                                                                 *)
(***************************************************************************)
Undefined == [domain |-> "", firstVisit |-> -1, lastVisit |-> -1, visitCount |-> 0]

NoStores == <<>>

\* store.get(domain): the row with that key, or undefined
StoreGet(rows, domain) ==
  IF domain \in DOMAIN rows THEN rows[domain] ELSE Undefined

\* store.put(row) on a store with keyPath 'domain'
StorePut(rows, row) == (row.domain :> row) @@ rows

\* visitsStore.add(visitData) on a store with keyPath 'id', autoIncrement
StoreAdd(rows, key, visitData) ==
  rows \cup {[id |-> key, domain |-> visitData.domain, timestamp |-> visitData.timestamp]}

\* the object stores this.version has: line 26-38 of the version 2 build,
\* line 26-30 of the version 1 build
ObjectStoreNames(v) ==
  IF v = FullSchemaVersion THEN {"domains", "visits"} ELSE {"domains"}

(***************************************************************************)
(* addOrUpdateDomain: the row it puts and the visit it adds.               *)
(***************************************************************************)
DomainData_noIncrement(existingData, domain, now) ==
  IF existingData # Undefined
    THEN [domain |-> domain, firstVisit |-> existingData.firstVisit,
          lastVisit |-> now, visitCount |-> existingData.visitCount]
    ELSE [domain |-> domain, firstVisit |-> now, lastVisit |-> now, visitCount |-> 1]

DomainData_firstNow(existingData, domain, now) ==
  IF existingData # Undefined
    THEN [domain |-> domain, firstVisit |-> now,
          lastVisit |-> now, visitCount |-> existingData.visitCount + 1]
    ELSE [domain |-> domain, firstVisit |-> now, lastVisit |-> now, visitCount |-> 1]

DomainData_staleLast(existingData, domain, now) ==
  IF existingData # Undefined
    THEN [domain |-> domain, firstVisit |-> existingData.firstVisit,
          lastVisit |-> existingData.lastVisit, visitCount |-> existingData.visitCount + 1]
    ELSE [domain |-> domain, firstVisit |-> now, lastVisit |-> now, visitCount |-> 1]

DomainData_firstFromLast(existingData, domain, now) ==
  IF existingData # Undefined
    THEN [domain |-> domain, firstVisit |-> existingData.lastVisit,
          lastVisit |-> now, visitCount |-> existingData.visitCount + 1]
    ELSE [domain |-> domain, firstVisit |-> now, lastVisit |-> now, visitCount |-> 1]

DomainData(existingData, domain, now) ==
  IF existingData # Undefined
    THEN [domain |-> domain, firstVisit |-> existingData.firstVisit,
          lastVisit |-> now, visitCount |-> existingData.visitCount + 1]
    ELSE [domain |-> domain, firstVisit |-> now, lastVisit |-> now, visitCount |-> 1]

VisitData(domain, now) == [domain |-> domain, timestamp |-> now]

(***************************************************************************)
(* Transactions.                                                           *)
(***************************************************************************)
\* this.db.transaction([...], 'readwrite') of addOrUpdateDomain
RecordScope(v) == ObjectStoreNames(v)

RecordMode_readonly == "readonly"

RecordMode == "readwrite"

\* this.db.transaction([...], 'readwrite') of clearAllDomains
ClearScope(v) == ObjectStoreNames(v)

ClearMode == "readwrite"

\* the visit add's onerror handler resolves and does not call
\* preventDefault(), so the error aborts the transaction
AddErrorAborts_prevented == FALSE

AddErrorAborts == TRUE

Call(kind, domain, origin) == [kind |-> kind, domain |-> domain, origin |-> origin]

\* another recordVisit for the same domain is in flight
Overlaps(call) ==
  \E j \in 1..Len(txs) : txs[j].kind = "record" /\ txs[j].domain = call.domain

NewTx(call) ==
  [kind |-> call.kind, domain |-> call.domain, origin |-> call.origin,
   mode |-> IF call.kind = "record" THEN RecordMode ELSE ClearMode,
   scope |-> IF call.kind = "record" THEN RecordScope(version) ELSE ClearScope(version),
   pc |-> IF call.kind = "record" THEN "get" ELSE "clear_domains",
   now |-> 0, data |-> Undefined,
   wroteDomains |-> FALSE, wroteVisits |-> FALSE,
   promise |-> "pending", failedAt |-> "none",
   overlap |-> call.kind = "record" /\ Overlaps(call)]

Conflicts_never(t1, t2) == FALSE

Conflicts(t1, t2) ==
  /\ t1.scope \cap t2.scope # {}
  /\ t1.mode = "readwrite" \/ t2.mode = "readwrite"

\* the transaction has started: no earlier live transaction conflicts
CanRun(i) == \A j \in 1..(i - 1) : ~Conflicts(txs[j], txs[i])

RemoveAt(s, i) == SubSeq(s, 1, i - 1) \o SubSeq(s, i + 1, Len(s))

\* what the caller does with the settled promise: the message handlers answer
\* {success: true} or {success: false, error}, the navigation listener
\* updates the badge or logs in its catch, onInstalled attaches nothing
Report(origin, promise) ==
  CASE origin = "message" -> IF promise = "rejected" THEN "error" ELSE "success"
    [] origin = "navigation" -> IF promise = "rejected" THEN "caught" ELSE "badge"
    [] OTHER -> IF promise = "rejected" THEN "unhandled" ELSE "none"

Done(t, committed) ==
  [kind |-> t.kind, domain |-> t.domain, origin |-> t.origin,
   promise |-> t.promise, committed |-> committed, failedAt |-> t.failedAt,
   overlap |-> t.overlap, data |-> t.data,
   report |-> Report(t.origin, t.promise)]

NoCall ==
  [kind |-> "none", domain |-> "", origin |-> "", promise |-> "pending",
   committed |-> FALSE, failedAt |-> "none", overlap |-> FALSE, data |-> Undefined,
   report |-> "none"]

\* what the transaction's writes make of the 'domains' store at commit
CommitDomains(t, rows) ==
  IF ~t.wroteDomains THEN rows
  ELSE IF t.kind = "clear" THEN NoStores
  ELSE StorePut(rows, t.data)

CommitVisits_kept(t, rows, key) ==
  IF ~t.wroteVisits THEN rows
  ELSE IF t.kind = "clear" THEN rows
  ELSE StoreAdd(rows, key, VisitData(t.domain, t.now))

\* what the transaction's writes make of the 'visits' store at commit
CommitVisits(t, rows, key) ==
  IF ~t.wroteVisits THEN rows
  ELSE IF t.kind = "clear" THEN {}
  ELSE StoreAdd(rows, key, VisitData(t.domain, t.now))

KeyGenerator_resetByClear(t, key) ==
  IF t.kind = "clear" /\ t.wroteVisits THEN 1
  ELSE IF t.kind = "record" /\ t.wroteVisits THEN key + 1 ELSE key

\* the key generator of 'visits' (autoIncrement) after the transaction: an
\* add takes the next key, clear() leaves the generator alone
KeyGenerator(t, key) ==
  IF t.kind = "record" /\ t.wroteVisits THEN key + 1 ELSE key

\* the call took its success path and its writes are committed
Succeeded(t) == t.promise = "resolved" /\ t.failedAt = "none"

(***************************************************************************)
(* Period queries and the page instance: their idle values.                *)
(***************************************************************************)
\* no period query or badge update has been asked for
NoQuery ==
  [pc |-> "idle", caller |-> "none", period |-> "all", sortBy |-> "",
   tab |-> "", aggregates |-> <<>>, now |-> 0, result |-> <<>>, badge |-> 0]

\* no content script runs
NoPage == [phase |-> "none"]

\* the popup is not open
NoApp == [phase |-> "closed"]

DefaultTracking_off == FALSE

\* let trackingEnabled = true
DefaultTracking == TRUE

\* the background script has read the setting that onInstalled stored
LoadedStorage == [trackingEnabled |-> "true", loaded |-> TRUE]

(***************************************************************************)
(* Initial state: the extension has just started, nothing is stored.       *)
(***************************************************************************)
NoDetails ==
  [frameId |-> 0, transitionType |-> "", transitionQualifiers |-> {},
   url |-> [given |-> FALSE, wellFormed |-> FALSE, scheme |-> <<>>, host |-> ""]]

\* no navigation has been delivered to the listener yet
Undelivered(details) ==
  [details |-> details, delivered |-> FALSE, seq |-> 0, tracking |-> TRUE]

InitCommon ==
  /\ version \in {AggregateOnlyVersion, FullSchemaVersion}
  /\ db = FALSE
  /\ trackingEnabled = DefaultTracking
  /\ storage = LoadedStorage
  /\ clock = 0
  /\ domains = NoStores
  /\ visits = {}
  /\ nextId = 1
  /\ opening = <<>>
  /\ txs = <<>>
  /\ lastDone = NoCall
  /\ okLog = [d \in Domains |-> <<>>]
  /\ tz = 0
  /\ query = NoQuery

Init ==
  /\ InitCommon
  /\ budget = MaxCalls
  /\ nav = Undelivered(NoDetails)
  /\ page = NoPage
  /\ app = NoApp

(***************************************************************************)
(* The environment: time passes.                                           *)
(***************************************************************************)
Tick ==
  /\ clock < MaxClock
  /\ clock' = clock + 1
  /\ UNCHANGED <<version, db, trackingEnabled, domains, visits, nextId,
                 opening, txs, budget, nav, lastDone, okLog,
                 tz, query, page, app, storage>>

(***************************************************************************)
(* A store call starts: "if (!this.db) await this.init()" and then the     *)
(* transaction is created in the same turn.                                *)
(***************************************************************************)
StartCall(call) ==
  /\ budget > 0
  /\ Len(txs) + Len(opening) < MaxLive
  /\ budget' = budget - 1
  /\ IF db /\ call.kind # "init"
       THEN /\ txs' = Append(txs, NewTx(call))
            /\ UNCHANGED opening
       ELSE /\ opening' = Append(opening, call)
            /\ UNCHANGED txs

\* init(): request.onsuccess sets this.db, the awaiting call goes on
OpenSuccess ==
  /\ opening # <<>>
  /\ db' = TRUE
  /\ opening' = Tail(opening)
  /\ IF Head(opening).kind = "init"
       THEN /\ lastDone' = [NoCall EXCEPT !.kind = "init",
                                          !.origin = Head(opening).origin,
                                          !.promise = "resolved"]
            /\ UNCHANGED txs
       ELSE /\ txs' = Append(txs, NewTx(Head(opening)))
            /\ UNCHANGED lastDone
  /\ UNCHANGED <<version, trackingEnabled, clock, domains, visits, nextId,
                 budget, nav, okLog,
                 tz, query, page, app, storage>>

\* init(): request.onerror rejects, the awaiting call rejects with it
OpenError ==
  /\ opening # <<>>
  /\ opening' = Tail(opening)
  /\ lastDone' = [NoCall EXCEPT !.kind = Head(opening).kind,
                                !.domain = Head(opening).domain,
                                !.origin = Head(opening).origin,
                                !.promise = "rejected",
                                !.failedAt = "open",
                                !.report = Report(Head(opening).origin,
                                                  "rejected")]
  /\ UNCHANGED <<version, db, trackingEnabled, clock, domains, visits, nextId,
                 txs, budget, nav, okLog,
                 tz, query, page, app, storage>>

(***************************************************************************)
(* addOrUpdateDomain: the callbacks of its transaction.                    *)
(***************************************************************************)
Active(i, kind, pc) ==
  /\ i \in 1..Len(txs)
  /\ txs[i].kind = kind
  /\ txs[i].pc = pc
  /\ CanRun(i)

\* the transaction ends without committing: its writes are discarded
Abort(i, t) ==
  /\ txs' = RemoveAt(txs, i)
  /\ lastDone' = Done(t, FALSE)
  /\ UNCHANGED <<version, db, trackingEnabled, clock, domains, visits, nextId,
                 opening, budget, nav, okLog,
                 tz, query, page, app, storage>>

Step(i, t) ==
  /\ txs' = [txs EXCEPT ![i] = t]
  /\ UNCHANGED <<version, db, trackingEnabled, clock, domains, visits, nextId,
                 opening, budget, nav, lastDone, okLog,
                 tz, query, page, app, storage>>

\* getRequest.onsuccess: compute domainData, place the put
GetSuccess(i) ==
  /\ Active(i, "record", "get")
  /\ LET domain == txs[i].domain
         existingData == StoreGet(domains, domain)
         now == clock
     IN Step(i, [txs[i] EXCEPT !.now = now,
                               !.data = DomainData(existingData, domain, now),
                               !.pc = "put"])

\* getRequest.onerror: reject
GetError(i) ==
  /\ Active(i, "record", "get")
  /\ Abort(i, [txs[i] EXCEPT !.promise = "rejected", !.failedAt = "get"])

\* putRequest.onsuccess: version 2 places the visit add, version 1 resolves
PutSuccess(i) ==
  /\ Active(i, "record", "put")
  /\ IF "visits" \in txs[i].scope
       THEN Step(i, [txs[i] EXCEPT !.wroteDomains = TRUE, !.pc = "add"])
       ELSE Step(i, [txs[i] EXCEPT !.wroteDomains = TRUE, !.pc = "done",
                                   !.promise = "resolved"])

\* putRequest.onerror: reject
PutError(i) ==
  /\ Active(i, "record", "put")
  /\ Abort(i, [txs[i] EXCEPT !.promise = "rejected", !.failedAt = "put"])

\* visitRequest.onsuccess: resolve(domainData)
AddSuccess(i) ==
  /\ Active(i, "record", "add")
  /\ Step(i, [txs[i] EXCEPT !.wroteVisits = TRUE, !.pc = "done",
                            !.promise = "resolved"])

\* visitRequest.onerror: resolve(domainData) all the same
AddError(i) ==
  /\ Active(i, "record", "add")
  /\ LET t == [txs[i] EXCEPT !.promise = "resolved", !.failedAt = "add"]
     IN IF AddErrorAborts
          THEN Abort(i, t)
          ELSE Step(i, [t EXCEPT !.pc = "done"])

(***************************************************************************)
(* clearAllDomains: both clear requests are placed when the transaction is *)
(* created; their callbacks come in that order.                            *)
(***************************************************************************)
\* domainsClearRequest.onsuccess (version 1: request.onsuccess resolves)
ClearDomainsSuccess(i) ==
  /\ Active(i, "clear", "clear_domains")
  /\ IF "visits" \in txs[i].scope
       THEN Step(i, [txs[i] EXCEPT !.wroteDomains = TRUE, !.pc = "clear_visits"])
       ELSE Step(i, [txs[i] EXCEPT !.wroteDomains = TRUE, !.pc = "done",
                                   !.promise = "resolved"])

\* domainsClearRequest.onerror
ClearDomainsError(i) ==
  /\ Active(i, "clear", "clear_domains")
  /\ Abort(i, [txs[i] EXCEPT !.promise = "rejected", !.failedAt = "clear_domains"])

\* visitsClearRequest.onsuccess: checkComplete() resolves
ClearVisitsSuccess(i) ==
  /\ Active(i, "clear", "clear_visits")
  /\ Step(i, [txs[i] EXCEPT !.wroteVisits = TRUE, !.pc = "done",
                            !.promise = "resolved"])

\* visitsClearRequest.onerror
ClearVisitsError(i) ==
  /\ Active(i, "clear", "clear_visits")
  /\ Abort(i, [txs[i] EXCEPT !.promise = "rejected", !.failedAt = "clear_visits"])

(***************************************************************************)
(* No request is pending any more: the transaction commits.                *)
(***************************************************************************)
Commit(i) ==
  /\ i \in 1..Len(txs)
  /\ txs[i].pc = "done"
  /\ CanRun(i)
  /\ LET t == txs[i]
     IN /\ domains' = CommitDomains(t, domains)
        /\ visits' = CommitVisits(t, visits, nextId)
        /\ nextId' = KeyGenerator(t, nextId)
        /\ okLog' = IF t.kind = "clear" THEN [d \in Domains |-> <<>>]
                    ELSE IF Succeeded(t)
                           THEN [okLog EXCEPT ![t.domain] = Append(@, t.now)]
                           ELSE okLog
        /\ txs' = RemoveAt(txs, i)
        /\ lastDone' = Done(t, TRUE)
  /\ UNCHANGED <<version, db, trackingEnabled, clock, opening, budget, nav,
                 tz, query, page, app, storage>>

(***************************************************************************)
(* chrome.runtime.onMessage of the background script.                      *)
(***************************************************************************)
OnMessageTrackDomain_gated(domain) ==
  /\ trackingEnabled
  /\ StartCall(Call("record", domain, "message"))
  /\ UNCHANGED <<version, db, trackingEnabled, clock, domains, visits, nextId,
                 nav, lastDone, okLog,
                 tz, query, page, app, storage>>

\* onMessage trackDomain: domainDB.addOrUpdateDomain(request.domain)
OnMessageTrackDomain(domain) ==
  /\ StartCall(Call("record", domain, "message"))
  /\ UNCHANGED <<version, db, trackingEnabled, clock, domains, visits, nextId,
                 nav, lastDone, okLog,
                 tz, query, page, app, storage>>

OnMessageClearDomains ==
  /\ StartCall(Call("clear", "*", "message"))
  /\ UNCHANGED <<version, db, trackingEnabled, clock, domains, visits, nextId,
                 nav, lastDone, okLog,
                 tz, query, page, app, storage>>

\* chrome.runtime.onInstalled: domainDB.init(), whatever this.db is
OnInstalled ==
  /\ StartCall(Call("init", "", "install"))
  /\ UNCHANGED <<version, db, trackingEnabled, clock, domains, visits, nextId,
                 nav, lastDone, okLog, tz, query, page, app, storage>>

\* onMessage toggleTracking: the flag is assigned and written to storage
OnMessageToggleTracking(enabled) ==
  /\ trackingEnabled' = enabled
  /\ storage' = [storage EXCEPT !.trackingEnabled = IF enabled THEN "true" ELSE "false"]
  /\ UNCHANGED <<version, db, clock, domains, visits, nextId, opening, txs,
                 budget, nav, lastDone, okLog,
                 tz, query, page, app>>

TxStep ==
  \E i \in 1..MaxLive :
    \/ GetSuccess(i)
    \/ GetError(i)
    \/ PutSuccess(i)
    \/ PutError(i)
    \/ AddSuccess(i)
    \/ AddError(i)
    \/ ClearDomainsSuccess(i)
    \/ ClearDomainsError(i)
    \/ ClearVisitsSuccess(i)
    \/ ClearVisitsError(i)
    \/ Commit(i)

Next ==
  \/ Tick
  \/ OpenSuccess
  \/ OpenError
  \/ TxStep
  \/ \E d \in Domains : OnMessageTrackDomain(d)
  \/ OnMessageClearDomains
  \/ OnInstalled
  \/ \E b \in BOOLEAN : OnMessageToggleTracking(b)

Spec == Init /\ [][Next]_vars

(***************************************************************************)
(* chrome.webNavigation.onCommitted listener: the navigation classifier.   *)
(* A URL is given by its scheme (as characters) and its host; new URL()    *)
(* throws on text that is no URL, and an http(s) URL always has a host.    *)
(* The schemes are those the browser commits navigations for. The          *)
(* qualifiers are a set: "details.transitionQualifiers || []" reads a      *)
(* missing array as the empty one.                                         *)
(***************************************************************************)
Http == <<"h", "t", "t", "p">>
Https == <<"h", "t", "t", "p", "s">>
File == <<"f", "i", "l", "e">>
Chrome == <<"c", "h", "r", "o", "m", "e">>
About == <<"a", "b", "o", "u", "t">>

Url(scheme, host) == [given |-> TRUE, wellFormed |-> TRUE, scheme |-> scheme, host |-> host]
UrlEmpty == [given |-> FALSE, wellFormed |-> FALSE, scheme |-> <<>>, host |-> ""]
UrlMalformed == [given |-> TRUE, wellFormed |-> FALSE, scheme |-> <<>>, host |-> ""]

Urls ==
  { UrlEmpty, UrlMalformed,
    Url(Http, "a.com"), Url(Https, "b.com"),
    Url(File, ""), Url(Chrome, "a.com"), Url(About, "") }

TransitionTypes ==
  { "link", "typed", "auto_bookmark", "auto_toplevel", "form_submit", "reload",
    "auto_subframe", "manual_subframe", "generated", "start_page",
    "keyword", "keyword_generated" }

QualifierSets == { {}, {"from_address_bar"}, {"server_redirect"} }

NavEvents ==
  [frameId : {0, 1}, transitionType : TransitionTypes,
   transitionQualifiers : QualifierSets, url : Urls]

\* new URL(text): protocol and hostname, or a TypeError
NewURL(url) ==
  IF url.wellFormed
    THEN [threw |-> FALSE, protocol |-> url.scheme \o <<":">>, hostname |-> url.host]
    ELSE [threw |-> TRUE, protocol |-> <<>>, hostname |-> ""]

\* String.prototype.startsWith
StartsWith(str, prefix) ==
  /\ Len(str) >= Len(prefix)
  /\ SubSeq(str, 1, Len(prefix)) = prefix

TrackingGate_open == TRUE

\* if (!trackingEnabled) return
TrackingGate == trackingEnabled

IsTopLevel_any(details) == TRUE

\* details.frameId === 0
IsTopLevel(details) == details.frameId = 0

userInitiatedTransitions ==
  {"typed", "auto_bookmark", "auto_toplevel", "form_submit", "reload", "link"}

isUserInitiated_always(details) == TRUE

isUserInitiated_noLink(details) ==
  \/ details.transitionType \in userInitiatedTransitions \ {"link"}
  \/ "from_address_bar" \in details.transitionQualifiers

isUserInitiated(details) ==
  \/ details.transitionType \in userInitiatedTransitions
  \/ "from_address_bar" \in details.transitionQualifiers

UrlTracked_anyScheme(url) ==
  /\ ~url.threw
  /\ url.hostname # ""

\* url.hostname && url.protocol.startsWith('http'), inside try/catch
UrlTracked(url) ==
  /\ ~url.threw
  /\ url.hostname # ""
  /\ StartsWith(url.protocol, Http)

\* the listener calls domainDB.addOrUpdateDomain(url.hostname)
Tracks(details) ==
  /\ TrackingGate
  /\ IsTopLevel(details)
  /\ isUserInitiated(details)
  /\ details.url.given
  /\ UrlTracked(NewURL(details.url))

OnCommitted ==
  LET details == nav.details
  IN /\ nav' = [nav EXCEPT !.delivered = TRUE, !.seq = 1 - @,
                            !.tracking = trackingEnabled]
     /\ IF Tracks(details)
          THEN StartCall(Call("record", NewURL(details.url).hostname, "navigation"))
          ELSE UNCHANGED <<opening, txs, budget>>
     /\ UNCHANGED <<version, db, trackingEnabled, clock, domains, visits, nextId,
                    lastDone, okLog,
                 tz, query, page, app, storage>>

(***************************************************************************)
(* The classifier on its own: one navigation drawn from NavEvents is       *)
(* delivered to the listener any number of times while tracking is toggled *)
(* and the calls it starts run.                                            *)
(***************************************************************************)
InitNav ==
  /\ InitCommon
  /\ budget = MaxNavCalls
  /\ \E details \in NavEvents : nav = Undelivered(details)
  /\ page = NoPage
  /\ app = NoApp

RecordStep ==
  \E i \in 1..MaxLive :
    \/ GetSuccess(i)
    \/ GetError(i)
    \/ PutSuccess(i)
    \/ PutError(i)
    \/ AddSuccess(i)
    \/ AddError(i)
    \/ Commit(i)

NextNav ==
  \/ OnCommitted
  \/ \E b \in BOOLEAN : OnMessageToggleTracking(b)
  \/ OpenSuccess
  \/ OpenError
  \/ RecordStep

SpecNav == InitNav /\ [][NextNav]_vars

(***************************************************************************)
(* The period aggregator: getAllDomains, getDomainsForPeriod and the badge *)
(* count. Times are counted in seconds (the code counts milliseconds); a   *)
(* local day has 24 hours.                                                 *)
(***************************************************************************)
SecondsPerDay == 24 * 60 * 60

Periods == {"today", "week", "month", "all"}

DomainOrder == <<"a.com", "b.com">>

\* the order of the keys of the 'domains' store
KeyRank(domain) == CHOOSE i \in 1..Len(DomainOrder) : DomainOrder[i] = domain

\* index.openCursor(null, 'prev') on the lastVisit index: descending by
\* lastVisit, equal values descending by primary key
CursorBefore(r1, r2) ==
  \/ r1.lastVisit > r2.lastVisit
  \/ r1.lastVisit = r2.lastVisit /\ KeyRank(r1.domain) > KeyRank(r2.domain)

RECURSIVE CursorPrev(_)
CursorPrev(rows) ==
  IF rows = {} THEN <<>>
  ELSE LET first == CHOOSE r \in rows : \A o \in rows \ {r} : CursorBefore(r, o)
       IN <<first>> \o CursorPrev(rows \ {first})

\* getAllDomains(): sortBy defaults to 'lastVisit'
GetAllDomains(rows) == CursorPrev({rows[d] : d \in DOMAIN rows})

\* new Date(now.getFullYear(), now.getMonth(), now.getDate())
LocalMidnight(now) == now - ((now + tz) % SecondsPerDay)

\* date.toDateString(): the local calendar day
ToDateString(date) == (date + tz) \div SecondsPerDay

StartDate_epoch(period, now) == 0

StartDate_shortWeek(period, now) ==
  CASE period = "today" -> LocalMidnight(now)
    [] period = "week" -> now
    [] period = "month" -> now - 30 * SecondsPerDay
    [] OTHER -> 0

\* the switch of the version 2 getDomainsForPeriod
StartDate(period, now) ==
  CASE period = "today" -> LocalMidnight(now)
    [] period = "week" -> now - 7 * SecondsPerDay
    [] period = "month" -> now - 30 * SecondsPerDay
    [] OTHER -> 0

VisitsRange_exclusive(rows, startDate) == {v \in rows : v.timestamp > startDate}

\* visitsIndex.openCursor(IDBKeyRange.lowerBound(startDate.toISOString()))
VisitsRange(rows, startDate) == {v \in rows : v.timestamp >= startDate}

\* visitCounts[domain] after the cursor has run over the range
VisitCounts(range, domain) == Cardinality({v \in range : v.domain = domain})

\* lastVisits[domain] after the cursor has run over the range, -1 for
\* undefined
LastVisits(range, domain) ==
  LET times == {v.timestamp : v \in {w \in range : w.domain = domain}}
  IN IF times = {} THEN -1 ELSE CHOOSE t \in times : \A u \in times : u <= t

\* lastVisits[domain.domain] || domain.lastVisit
LastVisitOr(range, aggregate) ==
  IF LastVisits(range, aggregate.domain) = -1 THEN aggregate.lastVisit
  ELSE LastVisits(range, aggregate.domain)

PeriodRow_lifetime(aggregate, range) ==
  [domain |-> aggregate.domain, firstVisit |-> aggregate.firstVisit,
   lastVisit |-> LastVisitOr(range, aggregate),
   visitCount |-> aggregate.visitCount,
   periodVisitCount |-> aggregate.visitCount]

\* the row the version 2 query builds for an aggregate
PeriodRow(aggregate, range) ==
  [domain |-> aggregate.domain, firstVisit |-> aggregate.firstVisit,
   lastVisit |-> LastVisitOr(range, aggregate),
   visitCount |-> VisitCounts(range, aggregate.domain),
   periodVisitCount |-> VisitCounts(range, aggregate.domain)]

Counted_always(aggregate, range) == TRUE

Counted_listed(aggregate, range) == aggregate.visitCount > 0

\* domains.filter(domain => visitCounts[domain.domain] > 0)
Counted(aggregate, range) == VisitCounts(range, aggregate.domain) > 0

\* domains.filter(...).map(...) of the version 2 getDomainsForPeriod
PeriodResult(aggregates, range) ==
  LET InPeriod(aggregate) == Counted(aggregate, range)
      counted == SelectSeq(aggregates, InPeriod)
  IN [i \in 1..Len(counted) |-> PeriodRow(counted[i], range)]

\* filterByDate of the version 1 background script
FilterByDate(period, date, now) ==
  CASE period = "today" -> ToDateString(date) = ToDateString(now)
    [] period = "week" -> date >= now - 7 * SecondsPerDay
    [] period = "month" -> date >= now - 30 * SecondsPerDay
    [] OTHER -> TRUE

\* filterByDate of the standalone version 1 DomainDB module: daysDiff < n
ModuleFilterByDate(period, date, now) ==
  CASE period = "today" -> now - date < SecondsPerDay
    [] period = "week" -> now - date < 7 * SecondsPerDay
    [] period = "month" -> now - date < 30 * SecondsPerDay
    [] OTHER -> TRUE

\* a version 1 row has no periodVisitCount
AggregateRow(aggregate) ==
  [domain |-> aggregate.domain, firstVisit |-> aggregate.firstVisit,
   lastVisit |-> aggregate.lastVisit, visitCount |-> aggregate.visitCount,
   periodVisitCount |-> -1]

\* domains.filter(domain => filterByDate(domain.lastVisit)), version 1
LegacyPeriodResult(aggregates, period, now, caller) ==
  LET Kept(aggregate) ==
        IF caller = "module"
          THEN ModuleFilterByDate(period, aggregate.lastVisit, now)
          ELSE FilterByDate(period, aggregate.lastVisit, now)
      kept == SelectSeq(aggregates, Kept)
  IN [i \in 1..Len(kept) |-> AggregateRow(kept[i])]

\* array.find(d => d.domain === domain), undefined as the empty sequence
Find(rows, domain) ==
  LET Match(row) == row.domain = domain
  IN SelectSeq(rows, Match)

\* updateBadge of the version 1 background script: daysDiff < 1
BadgeCountLegacy(aggregates, domain, today) ==
  LET found == Find(aggregates, domain)
  IN IF found # <<>> /\ today - found[1].lastVisit < SecondsPerDay
       THEN found[1].visitCount
       ELSE 0

\* updateBadge of the version 2 background script
BadgeCount(todayDomains, domain) ==
  LET found == Find(todayDomains, domain)
  IN IF found # <<>> THEN found[1].periodVisitCount ELSE 0

\* request.period || 'all'
RequestPeriod(period) == IF period = "" THEN "all" ELSE period

\* Array.prototype.sort with (a, b) => b[field] - a[field]: descending, stable
RECURSIVE SortDescending(_, _)
SortDescending(rows, field) ==
  IF rows = <<>> THEN <<>>
  ELSE LET i == CHOOSE k \in 1..Len(rows) :
                  /\ \A j \in 1..Len(rows) : rows[j][field] <= rows[k][field]
                  /\ \A j \in 1..(k - 1) : rows[j][field] < rows[k][field]
       IN <<rows[i]>> \o SortDescending(RemoveAt(rows, i), field)

\* the sort of the getDomains handler before sendResponse
SortResponse(rows, sortBy) ==
  IF version = AggregateOnlyVersion THEN SortDescending(rows, "visitCount")
  ELSE IF sortBy = "visitCount" THEN SortDescending(rows, "visitCount")
  ELSE IF sortBy \in {"", "lastVisit"} THEN SortDescending(rows, "lastVisit")
  ELSE rows

QueryUnchanged ==
  UNCHANGED <<version, db, trackingEnabled, clock, domains, visits, nextId,
              opening, txs, budget, nav, lastDone, okLog, tz, page, app, storage>>

\* onMessage getDomains: domainDB.getDomainsForPeriod(request.period || 'all')
OnMessageGetDomains(period, sortBy) ==
  /\ db
  /\ query.pc \in {"idle", "done"}
  /\ query' = [NoQuery EXCEPT !.pc = "aggregates", !.caller = "getDomains",
                              !.period = RequestPeriod(period),
                              !.sortBy = sortBy]
  /\ QueryUnchanged

\* getDomainsForPeriod called on the standalone version 1 DomainDB module
ModuleGetDomainsForPeriod(period) ==
  /\ db
  /\ version = AggregateOnlyVersion
  /\ query.pc \in {"idle", "done"}
  /\ query' = [NoQuery EXCEPT !.pc = "aggregates", !.caller = "module",
                              !.period = period]
  /\ QueryUnchanged

\* updateBadge(tabId) for a tab that shows an http(s) page of this domain
UpdateBadge(domain) ==
  /\ db
  /\ trackingEnabled
  /\ query.pc \in {"idle", "done"}
  /\ query' = [NoQuery EXCEPT !.pc = "aggregates", !.caller = "badge",
                              !.period = "today", !.tab = domain]
  /\ QueryUnchanged

\* getAllDomains() resolves; version 1 filters the aggregates at once
ReadAggregates ==
  /\ query.pc = "aggregates"
  /\ LET aggregates == GetAllDomains(domains)
         now == clock
     IN IF version = FullSchemaVersion
          THEN query' = [query EXCEPT !.pc = "visits", !.aggregates = aggregates,
                                      !.now = now]
          ELSE IF query.caller = "badge"
            THEN query' = [query EXCEPT !.pc = "done", !.aggregates = aggregates,
                             !.now = now,
                             !.badge = BadgeCountLegacy(aggregates, query.tab, now)]
            ELSE LET result == LegacyPeriodResult(aggregates, query.period,
                                                  now, query.caller)
                 IN query' = [query EXCEPT !.pc = "done",
                                !.aggregates = aggregates, !.now = now,
                                !.result = IF query.caller = "getDomains"
                                             THEN SortResponse(result, query.sortBy)
                                             ELSE result]
  /\ QueryUnchanged

\* the cursor over the timestamp index of 'visits' reaches its end
ScanVisits ==
  /\ query.pc = "visits"
  /\ LET range == VisitsRange(visits, StartDate(query.period, query.now))
         result == PeriodResult(query.aggregates, range)
     IN query' = [query EXCEPT !.pc = "done",
                    !.result = IF query.caller = "getDomains"
                                 THEN SortResponse(result, query.sortBy)
                                 ELSE result,
                    !.badge = IF query.caller = "badge"
                                THEN BadgeCount(result, query.tab) ELSE 0]
  /\ QueryUnchanged

(***************************************************************************)
(* The aggregator on its own: a store as recordVisit calls at some of the  *)
(* instants VisitTimes leave it, and queries asked at one of QueryTimes.   *)
(***************************************************************************)
MaxHistory == 3    \* recordVisit calls behind the store of SpecPeriod

\* request.sortBy of a getDomains message: absent, or one of the two keys
SortKeys == {"", "visitCount", "lastVisit"}

TzOffsets == {0, 5 * 3600 + 1800}

\* the instant at which the local clock shows second s of day d
LocalAt(offset, d, s) == d * SecondsPerDay + s - offset

\* T of the scenario: 10:00:00 local time on day 40
ScenarioT(offset) == LocalAt(offset, 40, 10 * 3600)

\* 23:59:59 of that day, 00:00:01 of the next, T + 26h
QueryTimes(offset) ==
  { ScenarioT(offset) + 14 * 3600 - 1,
    ScenarioT(offset) + 14 * 3600 + 1,
    ScenarioT(offset) + 26 * 3600 }

VisitTimes(offset) ==
  { ScenarioT(offset) + 14 * 3600 - 1,
    ScenarioT(offset),
    ScenarioT(offset) + 60,
    ScenarioT(offset) + 25 * 3600,
    ScenarioT(offset) + 26 * 3600 - 7 * SecondsPerDay,
    ScenarioT(offset) + 26 * 3600 - 7 * SecondsPerDay - 1,
    ScenarioT(offset) + 26 * 3600 - 30 * SecondsPerDay,
    ScenarioT(offset) + 26 * 3600 - 30 * SecondsPerDay - 1 }

RECURSIVE SortAscending(_)
SortAscending(times) ==
  IF times = {} THEN <<>>
  ELSE LET least == CHOOSE t \in times : \A u \in times : t <= u
       IN <<least>> \o SortAscending(times \ {least})

\* the rows recordVisit calls at these instants leave in 'domains'
DomainsAfter(history) ==
  LET visited == {h[1] : h \in history}
      times(d) == SortAscending({h[2] : h \in {g \in history : g[1] = d}})
  IN [d \in visited |->
        [domain |-> d, firstVisit |-> times(d)[1],
         lastVisit |-> times(d)[Len(times(d))], visitCount |-> Len(times(d))]]

\* the rows they leave in 'visits' (version 2), keys in order of time
VisitsAfter(history) ==
  LET earlier(h) == {g \in history :
                       \/ g[2] < h[2]
                       \/ g[2] = h[2] /\ KeyRank(g[1]) < KeyRank(h[1])}
  IN {[id |-> Cardinality(earlier(h)) + 1, domain |-> h[1], timestamp |-> h[2]] :
        h \in history}

InitPeriod ==
  /\ version \in {AggregateOnlyVersion, FullSchemaVersion}
  /\ db = TRUE
  /\ trackingEnabled = DefaultTracking
  /\ storage = LoadedStorage
  /\ tz \in TzOffsets
  /\ clock \in QueryTimes(tz)
  /\ \E history \in SUBSET (Domains \X VisitTimes(tz)) :
       /\ Cardinality(history) <= MaxHistory
       /\ \A h \in history : h[2] <= clock
       /\ domains = DomainsAfter(history)
       /\ visits = IF version = FullSchemaVersion THEN VisitsAfter(history) ELSE {}
       /\ nextId = IF version = FullSchemaVersion THEN Cardinality(history) + 1 ELSE 1
       /\ okLog = [d \in Domains |->
                     SortAscending({h[2] : h \in {g \in history : g[1] = d}})]
  /\ opening = <<>>
  /\ txs = <<>>
  /\ budget = 0
  /\ nav = Undelivered(NoDetails)
  /\ lastDone = NoCall
  /\ query = NoQuery
  /\ page = NoPage
  /\ app = NoApp

NextPeriod ==
  \/ \E period \in Periods \cup {""}, sortBy \in SortKeys :
       OnMessageGetDomains(period, sortBy)
  \/ \E period \in Periods : ModuleGetDomainsForPeriod(period)
  \/ \E domain \in Domains : UpdateBadge(domain)
  \/ ReadAggregates
  \/ ScanVisits

SpecPeriod == InitPeriod /\ [][NextPeriod]_vars

(***************************************************************************)
(* The aggregator of the version 2 build on a store that the version 1     *)
(* build began: indexedDB.open('FoculaticsDB', 2) found version 1, and     *)
(* onupgradeneeded added an empty 'visits' store beside the aggregates.    *)
(* The visits up to some instant were recorded before the upgrade and have *)
(* no visit row; the later ones have one.                                  *)
(***************************************************************************)
InitUpgrade ==
  /\ version = FullSchemaVersion
  /\ db = TRUE
  /\ trackingEnabled = DefaultTracking
  /\ storage = LoadedStorage
  /\ tz = 0
  /\ clock \in QueryTimes(tz)
  /\ \E history \in SUBSET (Domains \X VisitTimes(tz)), upgraded \in VisitTimes(tz) :
       LET later == {h \in history : h[2] > upgraded}
       IN /\ Cardinality(history) <= MaxHistory
          /\ \A h \in history : h[2] <= clock
          /\ \E h \in history : h[2] <= upgraded
          /\ domains = DomainsAfter(history)
          /\ visits = VisitsAfter(later)
          /\ nextId = Cardinality(later) + 1
          /\ okLog = [d \in Domains |->
                        SortAscending({h[2] : h \in {g \in history : g[1] = d}})]
  /\ opening = <<>>
  /\ txs = <<>>
  /\ budget = 0
  /\ nav = Undelivered(NoDetails)
  /\ lastDone = NoCall
  /\ query = NoQuery
  /\ page = NoPage
  /\ app = NoApp

NextUpgrade ==
  \/ \E period \in Periods \cup {""}, sortBy \in SortKeys :
       OnMessageGetDomains(period, sortBy)
  \/ \E domain \in Domains : UpdateBadge(domain)
  \/ ReadAggregates
  \/ ScanVisits

SpecUpgrade == InitUpgrade /\ [][NextUpgrade]_vars

(***************************************************************************)
(* The version 2 query beside the writers. getDomainsForPeriod awaits      *)
(* getAllDomains() (a read-only transaction on 'domains') and only then    *)
(* creates its read-only transaction on 'visits'; a trackDomain or         *)
(* clearDomains message that arrives meanwhile runs its read-write         *)
(* transaction between the two. Each read sees the committed rows of the   *)
(* instant it runs at.                                                     *)
(***************************************************************************)
InitConcurrent ==
  /\ version = FullSchemaVersion
  /\ db = TRUE
  /\ trackingEnabled = DefaultTracking
  /\ storage = LoadedStorage
  /\ tz = 0
  /\ clock = 1
  /\ \E history \in SUBSET (Domains \X {0}) :
       /\ domains = DomainsAfter(history)
       /\ visits = VisitsAfter(history)
       /\ nextId = Cardinality(history) + 1
       /\ okLog = [d \in Domains |->
                     SortAscending({h[2] : h \in {g \in history : g[1] = d}})]
  /\ opening = <<>>
  /\ txs = <<>>
  /\ budget = MaxNavCalls
  /\ nav = Undelivered(NoDetails)
  /\ lastDone = NoCall
  /\ query = NoQuery
  /\ page = NoPage
  /\ app = NoApp

NextConcurrent ==
  \/ \E d \in Domains : OnMessageTrackDomain(d)
  \/ OnMessageClearDomains
  \/ TxStep
  \/ \E period \in {"", "today"}, sortBy \in {"", "visitCount"} :
       OnMessageGetDomains(period, sortBy)
  \/ ReadAggregates
  \/ ScanVisits

SpecConcurrent == InitConcurrent /\ [][NextConcurrent]_vars

(***************************************************************************)
(* The content script of one page instance: settings, the two page-load    *)
(* checks, the effect messages, the quota notification, the hard block     *)
(* overlay with its observer and scroll lock.                              *)
(***************************************************************************)
MaxCount == 2       \* today counts a getDomains response reports: 0..MaxCount
MaxDispatch == 2    \* effect messages of one kind sent to a page instance

\* siteQuotas[domain] as chrome.storage hands it over
Absent == [type |-> "undefined", number |-> 0, chars |-> <<>>]

Num(n) == [type |-> "number", number |-> n, chars |-> <<>>]

Str(chars) == [type |-> "string", number |-> 0, chars |-> chars]

QuotaValues ==
  { Absent, Num(0), Num(-1), Num(1),
    Str(<<"a", "b", "c">>), Str(<<" ", "2", "x">>) }

DigitChars == <<"0", "1", "2", "3", "4", "5", "6", "7", "8", "9">>

IsDigit(c) == \E i \in 1..Len(DigitChars) : DigitChars[i] = c

DigitValue(c) == (CHOOSE i \in 1..Len(DigitChars) : DigitChars[i] = c) - 1

RECURSIVE NaturalChars(_)
NaturalChars(n) ==
  IF n < 10 THEN <<DigitChars[n + 1]>>
  ELSE NaturalChars(n \div 10) \o <<DigitChars[(n % 10) + 1]>>

\* ToString of the first argument of parseInt
ToChars(raw) ==
  CASE raw.type = "string" -> raw.chars
    [] raw.type = "number" ->
         IF raw.number < 0 THEN <<"-">> \o NaturalChars(0 - raw.number)
         ELSE NaturalChars(raw.number)
    [] OTHER -> <<"u", "n", "d", "e", "f", "i", "n", "e", "d">>

RECURSIVE StripLeft(_)
StripLeft(chars) ==
  IF chars # <<>> /\ Head(chars) = " " THEN StripLeft(Tail(chars)) ELSE chars

RECURSIVE LeadingDigits(_)
LeadingDigits(chars) ==
  IF chars # <<>> /\ IsDigit(Head(chars))
    THEN <<Head(chars)>> \o LeadingDigits(Tail(chars))
    ELSE <<>>

RECURSIVE DecimalValue(_)
DecimalValue(digits) ==
  IF digits = <<>> THEN 0
  ELSE 10 * DecimalValue(SubSeq(digits, 1, Len(digits) - 1))
         + DigitValue(digits[Len(digits)])

NaN == [nan |-> TRUE, value |-> 0]

\* parseInt(string, 10): white space, a sign, then the leading digits
ParseInt(chars) ==
  LET stripped == StripLeft(chars)
      signed == stripped # <<>> /\ Head(stripped) \in {"-", "+"}
      digits == LeadingDigits(IF signed THEN Tail(stripped) ELSE stripped)
  IN IF digits = <<>> THEN NaN
     ELSE [nan |-> FALSE,
           value |-> IF signed /\ Head(stripped) = "-"
                       THEN 0 - DecimalValue(digits)
                       ELSE DecimalValue(digits)]

\* parseInt(siteQuotasCache[domain], 10) || 0
MaxPerDay(raw) ==
  LET parsed == ParseInt(ToChars(raw))
  IN IF parsed.nan \/ parsed.value = 0 THEN 0 ELSE parsed.value

\* result.popupEnabled !== false, result.quotaEnabled !== false
NotFalse(stored) == stored # "false"

\* result.hardBlockEnabled === true
IsTrue(stored) == stored = "true"

StoredFlags == {"undefined", "true", "false"}

\* style.overflow of html and body as the page sets them
OverflowStyles ==
  { [html |-> "", body |-> ""], [html |-> "scroll", body |-> "auto"] }

NoCheck == [path |-> "none", count |-> 0, soft |-> FALSE, hard |-> FALSE]

\* the content script has just been evaluated in a page with these styles
LoadedPage(styles) ==
  [phase |-> "live", styles |-> styles,
   settingsLoaded |-> FALSE,
   popupEnabled |-> TRUE, quotaEnabled |-> TRUE, hardBlockEnabled |-> FALSE,
   quota |-> Absent,
   popupPath |-> "idle", quotaPath |-> "idle",
   quotaShown |-> FALSE, threats |-> 0, threatVisible |-> 0,
   hardBlocked |-> FALSE, overlays |-> 0, attached |-> FALSE,
   observers |-> 0, connected |-> FALSE, bodyReplaced |-> FALSE,
   pending |-> FALSE, listeners |-> <<>>,
   htmlOverflow |-> styles.html, bodyOverflow |-> styles.body,
   softCalls |-> 0, hardCalls |-> 0, softBy |-> "none", hardBy |-> "none",
   lastCheck |-> NoCheck,
   received |-> [toggleQuota |-> "none", toggleHardBlock |-> "none"]]

\* a child of document.body is added or removed: the observer, when it is
\* connected to this body, gets a record and its callback is queued
Mutated(p) == p.pending \/ (p.connected /\ ~p.bodyReplaced)

ShowQuotaExceededMessage_noFlag(p, by) ==
  [p EXCEPT !.softCalls = @ + 1, !.quotaShown = TRUE, !.threats = @ + 1,
            !.threatVisible = @ + 1, !.softBy = by, !.pending = Mutated(p)]

\* showQuotaExceededMessage and displayThreatMessage
ShowQuotaExceededMessage(p, by) ==
  IF p.quotaShown THEN [p EXCEPT !.softCalls = @ + 1]
  ELSE [p EXCEPT !.softCalls = @ + 1, !.quotaShown = TRUE, !.threats = @ + 1,
                 !.threatVisible = @ + 1, !.softBy = by,
                 !.pending = Mutated(p)]

ShowHardBlockOverlay_noFlag(p, by) ==
  [p EXCEPT !.hardCalls = @ + 1, !.hardBlocked = TRUE, !.overlays = @ + 1,
            !.listeners = Append(@, [html |-> p.htmlOverflow,
                                     body |-> p.bodyOverflow]),
            !.htmlOverflow = "hidden", !.bodyOverflow = "hidden",
            !.attached = TRUE, !.observers = @ + 1, !.connected = TRUE,
            !.bodyReplaced = FALSE, !.hardBy = by, !.pending = Mutated(p)]

\* showHardBlockOverlay: flag, scroll lock, overlay, observer, beforeunload
ShowHardBlockOverlay(p, by) ==
  IF p.hardBlocked THEN [p EXCEPT !.hardCalls = @ + 1]
  ELSE [p EXCEPT !.hardCalls = @ + 1, !.hardBlocked = TRUE,
                 !.overlays = @ + 1,
                 !.listeners = Append(@, [html |-> p.htmlOverflow,
                                          body |-> p.bodyOverflow]),
                 !.htmlOverflow = "hidden", !.bodyOverflow = "hidden",
                 !.attached = TRUE, !.observers = @ + 1, !.connected = TRUE,
                 !.bodyReplaced = FALSE, !.hardBy = by,
                 !.pending = Mutated(p)]

NoQuota_negativeOnly(maxPerDay) == maxPerDay < 0

\* !maxPerDay || maxPerDay <= 0
NoQuota(maxPerDay) == maxPerDay = 0 \/ maxPerDay <= 0

Exceeds_orEqual(visitCount, maxPerDay) == visitCount >= maxPerDay

\* visitCount > maxPerDay
Exceeds(visitCount, maxPerDay) == visitCount > maxPerDay

MaybeShowQuotaMessage(p, visitCount, by) ==
  LET maxPerDay == MaxPerDay(p.quota)
  IN IF ~p.quotaEnabled \/ NoQuota(maxPerDay) THEN p
     ELSE IF Exceeds(visitCount, maxPerDay)
       THEN ShowQuotaExceededMessage(p, by)
       ELSE p

MaybeHardBlock(p, visitCount, by) ==
  LET maxPerDay == MaxPerDay(p.quota)
  IN IF ~p.quotaEnabled \/ ~p.hardBlockEnabled \/ NoQuota(maxPerDay) THEN p
     ELSE IF Exceeds(visitCount, maxPerDay)
       THEN ShowHardBlockOverlay(p, by)
       ELSE p

\* what a check did, for the record of the last check
Checked(before, after, path, visitCount) ==
  [after EXCEPT !.lastCheck =
     [path |-> path, count |-> visitCount,
      soft |-> after.softCalls > before.softCalls,
      hard |-> after.hardCalls > before.hardCalls]]

PageUnchanged ==
  UNCHANGED <<version, db, trackingEnabled, clock, domains, visits, nextId,
              opening, txs, budget, nav, lastDone, okLog, tz, query, app, storage>>

\* a task of the page's event loop runs: no observer callback is waiting
Task == page.phase = "live" /\ ~page.pending

\* the callback of chrome.storage.local.get
SettingsLoaded(popupStored, quotaStored, hardBlockStored, quota) ==
  /\ Task
  /\ ~page.settingsLoaded
  /\ page' = [page EXCEPT
       !.settingsLoaded = TRUE,
       !.popupEnabled = NotFalse(popupStored),
       !.quotaEnabled = NotFalse(quotaStored),
       !.hardBlockEnabled = IsTrue(hardBlockStored),
       !.quota = quota,
       !.popupPath = IF NotFalse(popupStored) THEN "timer" ELSE "idle",
       !.quotaPath = IF NotFalse(quotaStored) THEN "timer" ELSE "idle"]
  /\ PageUnchanged

\* the 1500 ms timer: showDailyVisitCount
ShowDailyVisitCount ==
  /\ Task
  /\ page.popupPath = "timer"
  /\ page' = [page EXCEPT !.popupPath = IF page.popupEnabled THEN "request"
                                        ELSE "done"]
  /\ PageUnchanged

\* the 1800 ms timer: checkQuotaForCurrentDomain
CheckQuotaForCurrentDomain ==
  /\ Task
  /\ page.quotaPath = "timer"
  /\ page.popupPath # "timer"
  /\ page' = [page EXCEPT !.quotaPath = IF page.quotaEnabled THEN "request"
                                        ELSE "done"]
  /\ PageUnchanged

\* the response callback of showDailyVisitCount with the today count of this
\* domain: displayVisitPopup adds the popup to the body, then the quota test
PopupResponse(visitCount) ==
  /\ Task
  /\ page.popupPath = "request"
  /\ LET shown == [page EXCEPT !.popupPath = "done",
                               !.pending = Mutated(page)]
     IN page' = Checked(page, MaybeShowQuotaMessage(shown, visitCount, "popup"),
                        "popup", visitCount)
  /\ PageUnchanged

\* the response callback of checkQuotaForCurrentDomain
QuotaResponse(visitCount) ==
  /\ Task
  /\ page.quotaPath = "request"
  /\ LET started == [page EXCEPT !.quotaPath = "done"]
         soft == MaybeShowQuotaMessage(started, visitCount, "quota")
     IN page' = Checked(page, MaybeHardBlock(soft, visitCount, "quota"),
                        "quota", visitCount)
  /\ PageUnchanged

\* a response callback gets no response or success: false
PopupResponseFailed ==
  /\ Task
  /\ page.popupPath = "request"
  /\ page' = Checked(page, [page EXCEPT !.popupPath = "done"], "popupFailed", -1)
  /\ PageUnchanged

QuotaResponseFailed_failClosed ==
  /\ Task
  /\ page.quotaPath = "request"
  /\ page' = Checked(page,
                     ShowHardBlockOverlay([page EXCEPT !.quotaPath = "done"], "quota"),
                     "quotaFailed", -1)
  /\ PageUnchanged

\* the body of 'if (response && response.success)' is skipped: no count is
\* read and neither maybeShowQuotaMessage nor maybeHardBlock is called
QuotaResponseFailed ==
  /\ Task
  /\ page.quotaPath = "request"
  /\ page' = Checked(page, [page EXCEPT !.quotaPath = "done"], "quotaFailed", -1)
  /\ PageUnchanged

\* onMessage togglePopup; the visit popup element is not part of the state
OnMessageTogglePopup(enabled) ==
  /\ Task
  /\ page' = [page EXCEPT !.popupEnabled = enabled]
  /\ PageUnchanged

\* onMessage quotaExceeded
OnMessageQuotaExceeded ==
  /\ Task
  /\ page.softCalls < MaxDispatch
  /\ page' = ShowQuotaExceededMessage(page, "message")
  /\ PageUnchanged

\* onMessage hardBlock
OnMessageHardBlock ==
  /\ Task
  /\ page.hardCalls < MaxDispatch
  /\ page' = ShowHardBlockOverlay(page, "message")
  /\ PageUnchanged

\* the timers of displayThreatMessage remove the notification
ThreatExpires ==
  /\ Task
  /\ page.threatVisible > 0
  /\ page' = [page EXCEPT !.threatVisible = @ - 1, !.pending = Mutated(page)]
  /\ PageUnchanged

\* a script of the page takes the overlay out of document.body: removes the
\* node, or replaces the content of the body
PageRemovesOverlay ==
  /\ Task
  /\ page.attached
  /\ page' = [page EXCEPT !.attached = FALSE, !.pending = Mutated(page)]
  /\ PageUnchanged

\* a script of the page replaces document.body by a new element
PageReplacesBody ==
  /\ Task
  /\ page.hardBlocked
  /\ ~page.bodyReplaced
  /\ page' = [page EXCEPT !.attached = FALSE, !.bodyReplaced = TRUE,
                          !.threatVisible = 0, !.bodyOverflow = ""]
  /\ PageUnchanged

\* the MutationObserver callback
ObserverCallback ==
  /\ page.phase = "live"
  /\ page.pending
  /\ page' = IF ~page.attached
               THEN [page EXCEPT !.attached = TRUE,
                                 !.pending = page.connected /\ ~page.bodyReplaced]
               ELSE [page EXCEPT !.pending = FALSE]
  /\ PageUnchanged

Restore_htmlOnly(p, saved) ==
  [p EXCEPT !.connected = FALSE, !.pending = FALSE,
            !.htmlOverflow = saved.html]

\* one beforeunload listener of showHardBlockOverlay
Restore(p, saved) ==
  [p EXCEPT !.connected = FALSE, !.pending = FALSE,
            !.htmlOverflow = saved.html, !.bodyOverflow = saved.body]

RECURSIVE RunListeners(_, _)
RunListeners(p, listeners) ==
  IF listeners = <<>> THEN p
  ELSE RunListeners(Restore(p, Head(listeners)), Tail(listeners))

\* the page is about to unload: the beforeunload listeners run in order
BeforeUnload ==
  /\ Task
  /\ page' = [RunListeners(page, page.listeners) EXCEPT !.phase = "unloading"]
  /\ PageUnchanged

\* the document is unloaded
Unload ==
  /\ page.phase = "unloading"
  /\ page' = [page EXCEPT !.phase = "unloaded"]
  /\ PageUnchanged

\* the unload is cancelled (a beforeunload prompt of the page), the page stays
StayOnPage ==
  /\ page.phase = "unloading"
  /\ page' = [page EXCEPT !.phase = "live"]
  /\ PageUnchanged

InitPage ==
  /\ InitCommon
  /\ version = AggregateOnlyVersion
  /\ budget = 0
  /\ nav = Undelivered(NoDetails)
  /\ \E styles \in OverflowStyles : page = LoadedPage(styles)
  /\ app = NoApp

TaskStep ==
  \/ \E popupStored, quotaStored, hardBlockStored \in StoredFlags,
        quota \in QuotaValues :
       SettingsLoaded(popupStored, quotaStored, hardBlockStored, quota)
  \/ ShowDailyVisitCount
  \/ CheckQuotaForCurrentDomain
  \/ \E visitCount \in 0..MaxCount : PopupResponse(visitCount)
  \/ \E visitCount \in 0..MaxCount : QuotaResponse(visitCount)
  \/ PopupResponseFailed
  \/ QuotaResponseFailed
  \/ \E enabled \in BOOLEAN : OnMessageTogglePopup(enabled)
  \/ OnMessageQuotaExceeded
  \/ OnMessageHardBlock
  \/ ThreatExpires

NextPage ==
  \/ TaskStep
  \/ PageRemovesOverlay
  \/ PageReplacesBody
  \/ ObserverCallback
  \/ BeforeUnload
  \/ Unload
  \/ StayOnPage

SpecPage == InitPage /\ [][NextPage]_vars

(***************************************************************************)
(* A loaded page that is sent configuration toggles.                       *)
(***************************************************************************)
\* onMessage with action toggleQuota or toggleHardBlock, sent once the page has
\* loaded its settings: the listener logs the request and none of its four
\* branches (togglePopup, showMessage, quotaExceeded, hardBlock) matches
OnMessageToggle(action, enabled) ==
  /\ Task
  /\ page.settingsLoaded
  /\ page' = [page EXCEPT !.received[action] = IF enabled THEN "true" ELSE "false"]
  /\ PageUnchanged

NextToggle ==
  \/ \E popupStored, quotaStored, hardBlockStored \in StoredFlags,
        quota \in QuotaValues :
       SettingsLoaded(popupStored, quotaStored, hardBlockStored, quota)
  \/ \E action \in {"toggleQuota", "toggleHardBlock"}, enabled \in BOOLEAN :
       OnMessageToggle(action, enabled)
  \/ \E enabled \in BOOLEAN : OnMessageTogglePopup(enabled)
  \/ ShowDailyVisitCount
  \/ CheckQuotaForCurrentDomain
  \/ \E visitCount \in 0..MaxCount : PopupResponse(visitCount)
  \/ \E visitCount \in 0..MaxCount : QuotaResponse(visitCount)
  \/ PopupResponseFailed
  \/ QuotaResponseFailed
  \/ ObserverCallback

SpecToggle == InitPage /\ [][NextToggle]_vars

(***************************************************************************)
(* The popup: the App component's domain list, fetched with getDomains,    *)
(* beside a page instance that runs its checks after load.                 *)
(***************************************************************************)
INITIAL_DISPLAY_COUNT == 3

\* messages the popup sends in one run
MaxSent == 2

\* the component's state at its first render
MountedApp ==
  [phase |-> "open", activeTab |-> "today", fetched |-> FALSE,
   domains |-> <<>>, displayedDomains |-> <<>>, loading |-> FALSE,
   showMore |-> FALSE, fetching |-> 0, clearing |-> 0, sent |-> 0,
   alerts |-> 0, errors |-> 0, lastFetch |-> "none"]

\* response.domains of a successful answer: nothing, one row, more rows than
\* the popup displays at first
DomainLists ==
  { <<>>, <<"a.com">>, <<"a.com", "b.com", "c.com", "d.com">> }

\* an answer that is not '{success: true, ...}': no response at all, a tagged
\* error, or sendMessage throwing
Failures == {"missing", "failed", "threw"}

\* domainsData.slice(0, INITIAL_DISPLAY_COUNT)
Slice(domainsData, count) ==
  SubSeq(domainsData, 1, IF Len(domainsData) < count THEN Len(domainsData) ELSE count)

AppUnchanged ==
  UNCHANGED <<version, db, trackingEnabled, clock, domains, visits, nextId,
              opening, txs, budget, nav, lastDone, okLog, tz, query, page,
              storage>>

\* useEffect on activeTab: the first render, or handleTabClick with another
\* tab; fetchDomains sets loading and sends getDomains
FetchDomains(tabName) ==
  /\ app.phase = "open"
  /\ app.sent < MaxSent
  /\ IF app.fetched THEN tabName # app.activeTab ELSE tabName = app.activeTab
  /\ app' = [app EXCEPT !.activeTab = tabName, !.fetched = TRUE,
                        !.loading = TRUE,
                        !.fetching = @ + 1, !.sent = @ + 1]
  /\ AppUnchanged

\* fetchDomains, 'if (response && response.success)'
FetchResponse(domainsData) ==
  /\ app.phase = "open"
  /\ app.fetching > 0
  /\ app' = [app EXCEPT
       !.fetching = @ - 1,
       !.domains = domainsData,
       !.displayedDomains = Slice(domainsData, INITIAL_DISPLAY_COUNT),
       !.showMore = Len(domainsData) > INITIAL_DISPLAY_COUNT,
       !.loading = FALSE,
       !.lastFetch = "ok"]
  /\ AppUnchanged

\* fetchDomains, the else branch and the catch: console.error and an empty list
FetchResponseFailed(failure) ==
  /\ app.phase = "open"
  /\ app.fetching > 0
  /\ app' = [app EXCEPT
       !.fetching = @ - 1,
       !.errors = @ + 1,
       !.domains = <<>>,
       !.displayedDomains = <<>>,
       !.showMore = FALSE,
       !.loading = FALSE,
       !.lastFetch = failure]
  /\ AppUnchanged

\* handleClearData, the confirmation accepted
HandleClearData ==
  /\ app.phase = "open"
  /\ app.sent < MaxSent
  /\ app' = [app EXCEPT !.loading = TRUE, !.clearing = @ + 1, !.sent = @ + 1]
  /\ AppUnchanged

\* the clearDomains callback: an empty list, or the alert
ClearResponse(success) ==
  /\ app.phase = "open"
  /\ app.clearing > 0
  /\ app' = IF success
       THEN [app EXCEPT !.clearing = @ - 1, !.domains = <<>>,
                        !.displayedDomains = <<>>, !.showMore = FALSE,
                        !.loading = FALSE]
       ELSE [app EXCEPT !.clearing = @ - 1, !.alerts = @ + 1,
                        !.loading = FALSE]
  /\ AppUnchanged

InitFetch ==
  /\ InitCommon
  /\ version = FullSchemaVersion
  /\ budget = 0
  /\ nav = Undelivered(NoDetails)
  /\ \E styles \in OverflowStyles : page = LoadedPage(styles)
  /\ app = MountedApp

NextFetch ==
  \/ \E tabName \in {"today", "week", "month", "all"} : FetchDomains(tabName)
  \/ \E domainsData \in DomainLists : FetchResponse(domainsData)
  \/ \E failure \in Failures : FetchResponseFailed(failure)
  \/ HandleClearData
  \/ \E success \in BOOLEAN : ClearResponse(success)
  \/ \E popupStored, quotaStored, hardBlockStored \in StoredFlags,
        quota \in QuotaValues :
       SettingsLoaded(popupStored, quotaStored, hardBlockStored, quota)
  \/ ShowDailyVisitCount
  \/ CheckQuotaForCurrentDomain
  \/ \E visitCount \in 0..MaxCount : PopupResponse(visitCount)
  \/ \E visitCount \in 0..MaxCount : QuotaResponse(visitCount)
  \/ PopupResponseFailed
  \/ QuotaResponseFailed
  \/ ObserverCallback

SpecFetch == InitFetch /\ [][NextFetch]_vars

(***************************************************************************)
(* One navigation, from its commit to the quota check of the page it       *)
(* loads. The background page has just started: the handle is not open and *)
(* the store holds what earlier visits of the day left. The popup display  *)
(* is switched off, so the page asks for the count once.                   *)
(***************************************************************************)
\* a navigation the classifier accepts and one it does not
VisitEvents ==
  { [frameId |-> 0, transitionType |-> transitionType,
     transitionQualifiers |-> {}, url |-> Url(Http, "a.com")] :
      transitionType \in {"link", "generated"} }

\* window.location.hostname of the page
Hostname == NewURL(nav.details.url).hostname

\* the content script's getDomains message is waiting for its answer
Asking == page.phase = "live" /\ page.quotaPath = "request"

\* d ? d.visitCount : 0
VisitCountOf(rows, domain) ==
  LET d == Find(rows, domain)
  IN IF d # <<>> THEN d[1].visitCount ELSE 0

EarlierWritesEnded_noWait == TRUE

\* a read transaction starts when the readwrite transactions created before
\* it on its stores have ended; every store call here is older than the read
EarlierWritesEnded == txs = <<>>

\* the navigation commits once
VisitCommitted ==
  /\ ~nav.delivered
  /\ OnCommitted

\* the committed document runs the content script
DocumentLoaded ==
  /\ nav.delivered
  /\ page.phase = "none"
  /\ IsTopLevel(nav.details)
  /\ UrlTracked(NewURL(nav.details.url))
  /\ \E styles \in OverflowStyles : page' = LoadedPage(styles)
  /\ PageUnchanged

\* getDomains arrives while the handle is not open and no open is pending:
\* 'if (!this.db) await this.init()'
CheckOpensStore ==
  /\ Asking
  /\ query.pc = "idle"
  /\ ~db
  /\ opening = <<>>
  /\ lastDone.kind # "init"
  /\ StartCall(Call("init", "", "message"))
  /\ UNCHANGED <<version, db, trackingEnabled, clock, domains, visits, nextId,
                 nav, lastDone, okLog, tz, query, page, app, storage>>

\* the handle is open: the period query of the page's message starts
CheckQueries ==
  /\ Asking
  /\ query.pc = "idle"
  /\ opening = <<>>
  /\ OnMessageGetDomains("today", "")

\* the response callback of checkQuotaForCurrentDomain with the answer
QuotaAnswered ==
  /\ query.pc = "done"
  /\ QuotaResponse(VisitCountOf(query.result, Hostname))

InitVisit ==
  /\ version \in {AggregateOnlyVersion, FullSchemaVersion}
  /\ db = FALSE
  /\ trackingEnabled = DefaultTracking
  /\ storage = LoadedStorage
  /\ clock = 0
  /\ tz = 0
  /\ \E history \in {{}, {<<"a.com", 0>>}} :
       /\ domains = IF history = {} THEN NoStores ELSE DomainsAfter(history)
       /\ visits = IF version = FullSchemaVersion THEN VisitsAfter(history) ELSE {}
       /\ nextId = IF version = FullSchemaVersion THEN Cardinality(history) + 1 ELSE 1
       /\ okLog = [d \in Domains |->
                     SortAscending({h[2] : h \in {g \in history : g[1] = d}})]
  /\ opening = <<>>
  /\ txs = <<>>
  /\ budget = MaxNavCalls
  /\ \E details \in VisitEvents : nav = Undelivered(details)
  /\ lastDone = NoCall
  /\ query = NoQuery
  /\ page = NoPage
  /\ app = NoApp

NextVisit ==
  \/ VisitCommitted
  \/ OpenSuccess
  \/ OpenError
  \/ RecordStep
  \/ DocumentLoaded
  \/ \E quotaStored, hardBlockStored \in StoredFlags, quota \in QuotaValues :
       SettingsLoaded("false", quotaStored, hardBlockStored, quota)
  \/ CheckQuotaForCurrentDomain
  \/ CheckOpensStore
  \/ CheckQueries
  \/ EarlierWritesEnded /\ ReadAggregates
  \/ EarlierWritesEnded /\ ScanVisits
  \/ QuotaAnswered
  \/ QuotaResponseFailed

SpecVisit == InitVisit /\ [][NextVisit]_vars

(***************************************************************************)
(* The same navigation on the day after an earlier visit: the store may    *)
(* hold a visit of the day before and one of the present day.              *)
(***************************************************************************)
InitQuota ==
  /\ version \in {AggregateOnlyVersion, FullSchemaVersion}
  /\ db = FALSE
  /\ trackingEnabled = DefaultTracking
  /\ storage = LoadedStorage
  /\ clock = SecondsPerDay + 1
  /\ tz = 0
  /\ \E history \in SUBSET {<<"a.com", SecondsPerDay - 1>>, <<"a.com", SecondsPerDay>>} :
       /\ domains = IF history = {} THEN NoStores ELSE DomainsAfter(history)
       /\ visits = IF version = FullSchemaVersion THEN VisitsAfter(history) ELSE {}
       /\ nextId = IF version = FullSchemaVersion THEN Cardinality(history) + 1 ELSE 1
       /\ okLog = [d \in Domains |->
                     SortAscending({h[2] : h \in {g \in history : g[1] = d}})]
  /\ opening = <<>>
  /\ txs = <<>>
  /\ budget = MaxNavCalls
  /\ \E details \in VisitEvents : nav = Undelivered(details)
  /\ lastDone = NoCall
  /\ query = NoQuery
  /\ page = NoPage
  /\ app = NoApp

SpecQuota == InitQuota /\ [][NextVisit]_vars

(***************************************************************************)
(* The background script starts: the tracking flag has its default until   *)
(* the stored setting is loaded, while navigations already arrive.         *)
(***************************************************************************)
\* the callback of chrome.storage.local.get(['trackingEnabled']); the badge
\* update it starts only reads the store
TrackingLoaded ==
  /\ ~storage.loaded
  /\ trackingEnabled' = NotFalse(storage.trackingEnabled)
  /\ storage' = [storage EXCEPT !.loaded = TRUE]
  /\ UNCHANGED <<version, db, clock, domains, visits, nextId, opening, txs,
                 budget, nav, lastDone, okLog, tz, query, page, app>>

InitStartup ==
  /\ version \in {AggregateOnlyVersion, FullSchemaVersion}
  /\ db = FALSE
  /\ trackingEnabled = DefaultTracking
  /\ \E stored \in StoredFlags :
       storage = [trackingEnabled |-> stored, loaded |-> FALSE]
  /\ clock = 0
  /\ tz = 0
  /\ domains = NoStores
  /\ visits = {}
  /\ nextId = 1
  /\ okLog = [d \in Domains |-> <<>>]
  /\ opening = <<>>
  /\ txs = <<>>
  /\ budget = MaxNavCalls
  /\ \E details \in NavEvents : nav = Undelivered(details)
  /\ lastDone = NoCall
  /\ query = NoQuery
  /\ page = NoPage
  /\ app = NoApp

NextStartup ==
  \/ TrackingLoaded
  \/ OnCommitted
  \/ OpenSuccess
  \/ OpenError
  \/ RecordStep

SpecStartup == InitStartup /\ [][NextStartup]_vars

(***************************************************************************)
(* Properties.                                                             *)
(***************************************************************************)
VisitsIn(rows, d) == {v \in rows : v.domain = d}

TimestampsIn(rows, d) == {v.timestamp : v \in VisitsIn(rows, d)}

MaxOf(S) == CHOOSE x \in S : \A y \in S : y <= x

MinOf(S) == CHOOSE x \in S : \A y \in S : x <= y

VisitCountIn(rows, d) == StoreGet(rows, d).visitCount

\* transaction i ends in this step with its writes committed
Commits(i) ==
  /\ i \in 1..Len(txs)
  /\ txs[i].pc = "done"
  /\ txs' = RemoveAt(txs, i)
  /\ lastDone' = Done(txs[i], TRUE)

\* transaction i ends in this step without committing
Aborts(i) ==
  /\ i \in 1..Len(txs)
  /\ Len(txs') = Len(txs) - 1
  /\ lastDone'.committed = FALSE

\* C1: on the full schema, in every reachable state and for every domain,
\* the aggregate exists exactly when the domain has visit rows, its
\* visitCount is the number of those rows, its lastVisit their greatest
\* timestamp and its firstVisit their least timestamp.
C1_AggregateMatchesVisitRows ==
  version = FullSchemaVersion =>
    \A d \in Domains :
      IF d \in DOMAIN domains
        THEN /\ VisitsIn(visits, d) # {}
             /\ domains[d].visitCount = Cardinality(VisitsIn(visits, d))
             /\ domains[d].lastVisit = MaxOf(TimestampsIn(visits, d))
             /\ domains[d].firstVisit = MinOf(TimestampsIn(visits, d))
        ELSE VisitsIn(visits, d) = {}

C1_Witness ==
  /\ version = FullSchemaVersion
  /\ lastDone.kind = "record" /\ lastDone.committed /\ lastDone.overlap
  /\ \E d \in DOMAIN domains :
       /\ domains[d].visitCount = 2
       /\ domains[d].firstVisit < domains[d].lastVisit
  /\ nextId > Cardinality(visits) + 1

\* C2: every recordVisit that completes successfully raises the stored
\* visitCount of its domain by exactly one over the value stored when it
\* commits, whatever other calls for that domain were in flight with it.
C2_NoLostIncrement ==
  [][\A i \in 1..Len(txs) :
       (txs[i].kind = "record" /\ Succeeded(txs[i]) /\ Commits(i)) =>
         VisitCountIn(domains', txs[i].domain)
           = VisitCountIn(domains, txs[i].domain) + 1]_vars

C2_Witness ==
  /\ lastDone.kind = "record" /\ lastDone.committed /\ lastDone.overlap
  /\ Succeeded(lastDone)
  /\ lastDone.domain \in DOMAIN domains
  /\ domains[lastDone.domain].visitCount = 2
  /\ txs = <<>> /\ opening = <<>>

\* C3: after N >= 1 successful recordVisit(D) calls since the store last had
\* no aggregate for D, visitCount = N, firstVisit is the timestamp of the
\* first of them and lastVisit the timestamp of the N-th; with no such call
\* there is no aggregate.
C3_CountFirstLastAfterN ==
  \A d \in Domains :
    LET N == Len(okLog[d])
    IN IF N = 0
         THEN d \notin DOMAIN domains
         ELSE /\ d \in DOMAIN domains
              /\ domains[d].visitCount = N
              /\ domains[d].firstVisit = okLog[d][1]
              /\ domains[d].lastVisit = okLog[d][N]

C3_Witness ==
  \E d \in Domains :
    /\ Len(okLog[d]) = 3
    /\ okLog[d][1] < okLog[d][2]
    /\ okLog[d][2] < okLog[d][3]
    /\ domains[d].visitCount = 3

\* C4: clearAll is all-or-nothing: a clear that ends having reported success
\* leaves both tables empty, a clear that ends in failure leaves both tables
\* as they were, and on the full schema no committed state has one table
\* empty and rows in the other.
C4_ClearAllOrNothing ==
  /\ [](version = FullSchemaVersion => ((domains = NoStores) <=> (visits = {})))
  /\ [][\A i \in 1..Len(txs) :
          /\ (txs[i].kind = "clear" /\ Commits(i)) =>
               (txs[i].promise = "resolved" /\ domains' = NoStores /\ visits' = {})
          /\ (txs[i].kind = "clear" /\ txs[i].promise = "resolved" /\ Len(txs') < Len(txs)
                /\ txs' = RemoveAt(txs, i)) =>
               (domains' = NoStores /\ visits' = {})
          /\ (txs[i].kind = "clear" /\ txs' = RemoveAt(txs, i) /\ Aborts(i)) =>
               (lastDone'.promise = "rejected" /\ UNCHANGED <<domains, visits>>)]_vars

C4_Witness ==
  /\ version = FullSchemaVersion
  /\ lastDone.kind = "clear" /\ lastDone.committed /\ lastDone.promise = "resolved"
  /\ nextId > 2
  /\ domains = NoStores /\ visits = {}

\* C5: on the full schema the aggregate row of a domain and its visit rows
\* change together or not at all, and a recordVisit whose get, put or visit
\* append fails leaves both tables as they were.
C5_WriteFailureLeavesNoPartialState ==
  [][version = FullSchemaVersion =>
       /\ \A d \in Domains :
            (StoreGet(domains', d) # StoreGet(domains, d))
              <=> (VisitsIn(visits', d) # VisitsIn(visits, d))
       /\ \A i \in 1..Len(txs) :
            (txs[i].kind = "record" /\ txs' = RemoveAt(txs, i)
               /\ lastDone'.failedAt # "none" /\ lastDone'.kind = "record")
              => UNCHANGED <<domains, visits, nextId>>]_vars

C5_Witness ==
  /\ version = FullSchemaVersion
  /\ lastDone.kind = "record" /\ lastDone.failedAt = "add" /\ ~lastDone.committed
  /\ lastDone.domain \in DOMAIN domains
  /\ domains[lastDone.domain].visitCount = Cardinality(VisitsIn(visits, lastDone.domain))
  /\ lastDone.data.visitCount = domains[lastDone.domain].visitCount + 1

(***************************************************************************)
(* Properties of the classifier, stated on the navigation's own fields.    *)
(***************************************************************************)
\* nothing was ever written to or asked of the store
StoreUntouched ==
  /\ opening = <<>> /\ txs = <<>>
  /\ domains = NoStores /\ visits = {} /\ nextId = 1
  /\ lastDone = NoCall

\* the listener ran in this step
Delivered == nav'.seq # nav.seq

HttpUrl(url) ==
  /\ url.given /\ url.wellFormed
  /\ url.scheme = Http \/ url.scheme = Https
  /\ url.host # ""

Whitelisted(details) ==
  \/ details.transitionType \in
       {"typed", "auto_bookmark", "auto_toplevel", "form_submit", "reload", "link"}
  \/ "from_address_bar" \in details.transitionQualifiers

\* C6: a navigation whose frameId is not 0 never leads to a store call or a
\* store write, whatever its transition type, qualifiers and URL.
C6_SubframeNeverWrites ==
  nav.details.frameId # 0 => StoreUntouched

C6_Witness ==
  /\ nav.delivered /\ nav.tracking
  /\ nav.details.frameId # 0
  /\ nav.details.transitionType = "link"
  /\ HttpUrl(nav.details.url)
  /\ StoreUntouched

\* C7: a delivery of a top-level, whitelisted http(s) navigation while
\* tracking is enabled starts exactly one recordVisit, for the URL's
\* hostname; when that call commits the domain's visitCount has risen by
\* exactly one and exactly one visit row has been appended.
C7_AcceptedRecordedOnce ==
  [][/\ (/\ Delivered /\ trackingEnabled
         /\ nav.details.frameId = 0 /\ Whitelisted(nav.details)
         /\ HttpUrl(nav.details.url)) =>
          LET new == IF db THEN txs'[Len(txs')] ELSE opening'[Len(opening')]
          IN /\ Len(opening') + Len(txs') = Len(opening) + Len(txs) + 1
             /\ new.kind = "record"
             /\ new.domain = nav.details.url.host
             /\ new.origin = "navigation"
     /\ \A i \in 1..Len(txs) :
          (txs[i].origin = "navigation" /\ Commits(i)) =>
            /\ txs[i].kind = "record"
            /\ VisitCountIn(domains', txs[i].domain)
                 = VisitCountIn(domains, txs[i].domain) + 1
            /\ version = FullSchemaVersion =>
                 /\ Cardinality(visits') = Cardinality(visits) + 1
                 /\ Cardinality(VisitsIn(visits', txs[i].domain))
                      = Cardinality(VisitsIn(visits, txs[i].domain)) + 1]_vars

C7_Witness ==
  /\ nav.delivered
  /\ lastDone.origin = "navigation" /\ lastDone.committed
  /\ lastDone.domain = nav.details.url.host
  /\ domains[lastDone.domain].visitCount = 2
  /\ version = FullSchemaVersion /\ Cardinality(visits) = 2

\* C8: a navigation delivered while trackingEnabled is false starts no store
\* call and changes nothing in the store.
C8_DisabledNeverWrites ==
  [][(Delivered /\ ~trackingEnabled) =>
       UNCHANGED <<opening, txs, budget, domains, visits, nextId, lastDone>>]_vars

C8_Witness ==
  /\ nav.delivered /\ ~nav.tracking
  /\ nav.details.frameId = 0
  /\ nav.details.transitionType = "typed"
  /\ HttpUrl(nav.details.url)
  /\ StoreUntouched

\* C9: a navigation whose transitionType is none of typed, auto_bookmark,
\* auto_toplevel, form_submit, reload, link and whose qualifiers lack
\* from_address_bar never leads to a store call or a store write.
C9_OnlyWhitelistedTransitions ==
  ~Whitelisted(nav.details) => StoreUntouched

C9_Witness ==
  /\ nav.delivered /\ nav.tracking
  /\ nav.details.frameId = 0
  /\ nav.details.transitionType = "generated"
  /\ nav.details.transitionQualifiers = {"server_redirect"}
  /\ HttpUrl(nav.details.url)
  /\ StoreUntouched

\* C10: a navigation whose URL is absent, cannot be parsed, has an empty
\* hostname or has a scheme other than http and https never leads to a
\* store call or a store write.
C10_OnlyHttpUrls ==
  ~HttpUrl(nav.details.url) => StoreUntouched

C10_Witness ==
  /\ nav.delivered /\ nav.tracking
  /\ nav.details.frameId = 0
  /\ nav.details.transitionType = "link"
  /\ nav.details.url = Url(Chrome, "a.com")
  /\ StoreUntouched

(***************************************************************************)
(* Properties of the period aggregator.                                    *)
(***************************************************************************)
\* the local calendar day an instant falls on
CalendarDay(t) == (t + tz) \div SecondsPerDay

\* the start boundary of a period for a query asked at instant now
StartBoundary(period, now) ==
  CASE period = "today" -> CalendarDay(now) * SecondsPerDay - tz
    [] period = "week" -> now - 7 * SecondsPerDay
    [] period = "month" -> now - 30 * SecondsPerDay
    [] OTHER -> 0

\* the instants of the recorded visits to d
Recorded(d) == {okLog[d][i] : i \in 1..Len(okLog[d])}

RowsOf(d) == Find(query.result, d)

\* the finished today computation counts d
CountedToday(d) ==
  IF query.caller = "badge" THEN query.tab = d /\ query.badge > 0
  ELSE RowsOf(d) # <<>>

\* the count a finished query reports for d, 0 when d is not reported
ReportedCount(d) == IF RowsOf(d) = <<>> THEN 0 ELSE RowsOf(d)[1].visitCount

TodayDone == query.pc = "done" /\ query.period = "today"

\* C11: every place that computes a today count (period query, badge)
\* counts a domain exactly when it has a visit on the local calendar day of
\* the computation; a visit of 23:59:59 is out at 00:00:01 of the next day.
C11_TodayIsCalendarDay ==
  TodayDone =>
    \A d \in Domains :
      (query.caller = "badge" => query.tab = d) =>
        (CountedToday(d) <=>
           \E t \in Recorded(d) : CalendarDay(t) = CalendarDay(query.now))

\* C12: on the full schema every row of a period query reports as count the
\* number of visit rows of its domain at or after the start boundary, as
\* last visit the latest of them, and as first visit the aggregate's.
C12_PeriodRowsMatchVisitRows ==
  (query.pc = "done" /\ version = FullSchemaVersion) =>
    \A i \in 1..Len(query.result) :
      LET row == query.result[i]
          inPeriod == {v \in VisitsIn(visits, row.domain) :
                         v.timestamp >= StartBoundary(query.period, query.now)}
      IN /\ row.periodVisitCount = Cardinality(inPeriod)
         /\ row.visitCount = Cardinality(inPeriod)
         /\ inPeriod # {}
         /\ row.lastVisit = MaxOf({v.timestamp : v \in inPeriod})
         /\ row.firstVisit = StoreGet(domains, row.domain).firstVisit

\* a week query whose first counted visit lies exactly on the boundary and
\* which leaves an older visit of the same domain out
C12_Witness ==
  /\ query.pc = "done" /\ version = FullSchemaVersion
  /\ query.caller = "getDomains" /\ query.period = "week"
  /\ RowsOf("a.com") # <<>>
  /\ ReportedCount("a.com") = 2
  /\ StoreGet(domains, "a.com").visitCount = 3
  /\ \E v \in visits : /\ v.domain = "a.com"
                       /\ v.timestamp = query.now - 7 * SecondsPerDay

\* visits at T, T + 1 min and T + 25 h, query at T + 26 h
ScenarioStore(d) ==
  /\ okLog[d] = <<ScenarioT(tz), ScenarioT(tz) + 60, ScenarioT(tz) + 25 * 3600>>
  /\ query.now = ScenarioT(tz) + 26 * 3600

ScenarioCounts(d) ==
  (query.pc = "done" /\ query.caller = "getDomains" /\ ScenarioStore(d)) =>
    /\ query.period = "today" => ReportedCount(d) = 1
    /\ query.period = "all" => ReportedCount(d) = 3

\* C13 as stated: with visits at T, T + 1 min and T + 25 h, a today query at
\* T + 26 h reports count 1 and an all query reports count 3.
C13_TodayOneAllThree ==
  \A d \in Domains : ScenarioCounts(d)

\* C13, amended: the same on the full schema.
C13_TodayOneAllThreeFullSchema ==
  version = FullSchemaVersion => \A d \in Domains : ScenarioCounts(d)

C13_Witness ==
  /\ version = FullSchemaVersion
  /\ query.pc = "done" /\ query.caller = "getDomains"
  /\ query.period = "today"
  /\ ScenarioStore("a.com")
  /\ ReportedCount("a.com") = 1

(***************************************************************************)
(* Properties of the quota check and of the enforcement effects.           *)
(***************************************************************************)
\* a page-load check has run since the settings were loaded
CheckDone == page.phase # "none" /\ page.lastCheck.path # "none"

\* the last check produced no enforcement effect
CheckQuiet == ~page.lastCheck.soft /\ ~page.lastCheck.hard

\* the entry is a positive number
PositiveQuota(raw) == raw.type = "number" /\ raw.number > 0

\* a text that, blanks and a sign aside, does not begin with a digit
NotANumber(chars) ==
  \A i \in 1..Len(chars) :
    (\A j \in 1..(i - 1) : chars[j] \in {" ", "-", "+"}) => ~IsDigit(chars[i])

\* no entry, or an entry that is zero, negative or not a number
NoQuotaEntry(raw) ==
  \/ raw.type = "undefined"
  \/ raw.type = "number" /\ raw.number <= 0
  \/ raw.type = "string" /\ NotANumber(raw.chars)

\* C14: with the quota enabled and maxPerDay = m > 0, a check with a today
\* count of at most m produces nothing; a check with a larger count calls for
\* enforcement: the quota path for the hard block when hardBlockEnabled and
\* for the soft notification otherwise.
C14_StrictlyGreaterThan ==
  (CheckDone /\ page.quotaEnabled /\ PositiveQuota(page.quota)) =>
    /\ page.lastCheck.count <= page.quota.number => CheckQuiet
    /\ page.lastCheck.count > page.quota.number =>
         /\ page.lastCheck.soft \/ page.lastCheck.hard
         /\ page.lastCheck.path = "quota" =>
              IF page.hardBlockEnabled THEN page.lastCheck.hard
              ELSE page.lastCheck.soft /\ ~page.lastCheck.hard

\* a count of exactly m on the quota path, hard block enabled: nothing shown
C14_Witness ==
  /\ CheckDone /\ page.quotaEnabled /\ page.hardBlockEnabled
  /\ page.quota = Num(1)
  /\ page.lastCheck.path = "quota" /\ page.lastCheck.count = 1
  /\ page.softCalls = 0 /\ page.hardCalls = 0

\* C15: with quotaEnabled false, or no quota entry for the domain, or an
\* entry that is zero, negative or not a number, a check produces neither
\* the soft notification nor the hard overlay, whatever the count.
C15_NoQuotaNoEnforcement ==
  (CheckDone /\ (~page.quotaEnabled \/ NoQuotaEntry(page.quota))) => CheckQuiet

C15_Witness ==
  /\ CheckDone /\ page.quotaEnabled /\ page.hardBlockEnabled
  /\ page.quota = Str(<<"a", "b", "c">>)
  /\ page.lastCheck.path = "quota" /\ page.lastCheck.count = 2
  /\ page.softCalls = 0 /\ page.hardCalls = 0

\* C16: the page-load checks of one page instance produce the soft
\* notification only when hardBlockEnabled is false, the hard overlay only
\* when it is true, and never both.
C16_AtMostOneEffect ==
  page.phase # "none" =>
    /\ page.softBy \in {"popup", "quota"} => ~page.hardBlockEnabled
    /\ page.hardBy = "quota" => page.hardBlockEnabled
    /\ ~(page.softBy \in {"popup", "quota"} /\ page.hardBy = "quota")

\* C17: the quota notification is displayed at most once in a page instance.
C17_NotificationAtMostOnce ==
  page.phase # "none" => page.threats <= 1

\* shown on a quotaExceeded message, gone again, and asked for again by a
\* page-load check
C17_Witness ==
  /\ page.phase = "live"
  /\ page.threats = 1 /\ page.threatVisible = 0 /\ ~page.hardBlocked
  /\ page.softBy = "message"
  /\ page.lastCheck.soft
  /\ page.softCalls >= 3

\* C18: after two or more dispatches of the hard block there is one overlay,
\* one observer and one scroll lock, which holds the styles of the page.
C18_HardBlockIdempotent ==
  (page.phase # "none" /\ page.hardCalls >= 2) =>
    /\ page.overlays = 1
    /\ page.observers = 1
    /\ Len(page.listeners) = 1
    /\ page.listeners[1] = page.styles

C18_Witness ==
  /\ page.phase = "live"
  /\ page.hardCalls >= 3
  /\ page.hardBy = "message" /\ page.lastCheck.hard
  /\ page.attached /\ page.connected

\* C19: while the page instance lives, a shown overlay that is out of the
\* document has its re-insertion under way.
C19_OverlayReinserted ==
  (page.phase = "live" /\ page.hardBlocked /\ ~page.attached) => page.pending

\* C20: once the page instance tears down, html and body have the overflow
\* styles they had before the overlay was shown and the observer is
\* disconnected.
C20_ScrollLockReleased ==
  (page.phase \in {"unloading", "unloaded"} /\ page.hardBlocked) =>
    /\ page.htmlOverflow = page.styles.html
    /\ page.bodyOverflow = page.styles.body
    /\ ~page.connected

C20_Witness ==
  /\ page.phase = "unloaded" /\ page.hardBlocked
  /\ page.styles = [html |-> "scroll", body |-> "auto"]
  /\ page.htmlOverflow = "scroll" /\ page.bodyOverflow = "auto"
  /\ ~page.connected

(***************************************************************************)
(* Properties of the aggregate's timestamps and of the visit keys.         *)
(***************************************************************************)
\* the domains that have an aggregate before and after the step
Kept == (DOMAIN domains) \cap (DOMAIN domains')

\* C28: a step never changes the firstVisit of an aggregate that exists
\* before and after it; only clearAll takes an aggregate away.
C28_FirstVisitImmutable ==
  [][\A d \in Kept : domains'[d].firstVisit = domains[d].firstVisit]_vars

\* the third visit to a.com is recorded two ticks after the first
C28_Witness ==
  /\ "a.com" \in DOMAIN domains
  /\ domains["a.com"].visitCount = 3
  /\ domains["a.com"].firstVisit = 0
  /\ clock = MaxClock /\ domains["a.com"].lastVisit = clock

\* C29: a step never moves the lastVisit of an aggregate backwards, and every
\* aggregate has firstVisit <= lastVisit.
C29_LastVisitMonotonic ==
  [][/\ \A d \in Kept : domains'[d].lastVisit >= domains[d].lastVisit
     /\ \A d \in DOMAIN domains' :
          domains'[d].firstVisit <= domains'[d].lastVisit]_vars

\* two calls for the same domain were in flight together and the later one
\* wrote a later lastVisit
C29_Witness ==
  /\ "b.com" \in DOMAIN domains
  /\ domains["b.com"].visitCount >= 2
  /\ domains["b.com"].firstVisit < domains["b.com"].lastVisit
  /\ lastDone.kind = "record" /\ lastDone.domain = "b.com"
  /\ lastDone.overlap /\ lastDone.committed

\* C30: the rows a step appends to 'visits' get keys larger than every key
\* given out before, also when a clearAll came in between, and no two rows
\* have the same key.
C30_VisitIdsIncrease ==
  [][/\ \A v \in visits' \ visits :
          /\ v.id >= nextId
          /\ \A w \in visits : w.id < v.id
     /\ nextId' >= nextId
     /\ \A v \in visits' : v.id < nextId'
     /\ \A v, w \in visits' : v.id = w.id => v = w]_vars

\* a row appended after a clearAll that removed rows 1 and 2
C30_Witness ==
  /\ version = FullSchemaVersion
  /\ \E v \in visits : v.id = 3
  /\ \A v \in visits : v.id = 3

(***************************************************************************)
(* Properties of the getDomains response.                                  *)
(***************************************************************************)
GetDomainsDone == query.pc = "done" /\ query.caller = "getDomains"

\* C24: a getDomains response is in descending order of the key the request
\* names, visitCount or lastVisit.
C24_SortedAsRequested ==
  (GetDomainsDone /\ query.sortBy \in {"visitCount", "lastVisit"}) =>
    \A i, j \in 1..Len(query.result) :
      i < j => query.result[i][query.sortBy] >= query.result[j][query.sortBy]

\* C27: every row of a finished period query (getDomains message, badge) is
\* of a domain with at least one recorded visit at or after the start of the
\* period, and on the full schema reports a period count of at least 1.
C27_NoRowWithoutVisit ==
  (query.pc = "done" /\ query.caller \in {"getDomains", "badge"}) =>
    \A i \in 1..Len(query.result) :
      /\ \E t \in Recorded(query.result[i].domain) :
           t >= StartBoundary(query.period, query.now)
      /\ version = FullSchemaVersion => query.result[i].periodVisitCount >= 1

\* a.com has an aggregate but no visit today and is left out; b.com is in
C27_Witness ==
  /\ GetDomainsDone /\ version = FullSchemaVersion
  /\ query.period = "today"
  /\ "a.com" \in DOMAIN domains
  /\ RowsOf("a.com") = <<>>
  /\ RowsOf("b.com") # <<>>

(***************************************************************************)
(* Properties of opening the store and of reporting its failures.          *)
(***************************************************************************)
\* C21: at most one indexedDB.open request is in flight at any time: store
\* operations that start while the handle is not open share one open.
C21_SingleInFlightOpen ==
  Len(opening) <= 1

\* C22: every store call that fails is answered with {success: false, error}
\* or caught by its caller; no rejection is left unhandled.
C22_FailuresReachCaller ==
  lastDone.promise = "rejected" => lastDone.report \in {"error", "caught"}

(***************************************************************************)
(* Properties of failed getDomains responses.                              *)
(***************************************************************************)
\* the step is a failed fetchDomains of the popup
FetchFails == app'.errors > app.errors

\* the step is a page-side response callback without a usable response
CheckFails ==
  \/ page.popupPath = "request" /\ page'.lastCheck.path = "popupFailed"
  \/ page.quotaPath = "request" /\ page'.lastCheck.path = "quotaFailed"

\* C23: a failed or missing getDomains response leaves the popup with an
\* empty list and raises no dialog, and in the page it produces neither the
\* soft notification nor the hard overlay.
C23_FailedResponseFailsOpen ==
  [][ /\ FetchFails =>
           /\ app'.domains = <<>>
           /\ app'.displayedDomains = <<>>
           /\ ~app'.showMore
           /\ app'.alerts = app.alerts
      /\ CheckFails =>
           /\ page'.softCalls = page.softCalls
           /\ page'.hardCalls = page.hardCalls
           /\ page'.threats = page.threats
           /\ page'.overlays = page.overlays
           /\ page'.hardBlocked = page.hardBlocked
           /\ ~page'.lastCheck.soft /\ ~page'.lastCheck.hard ]_vars

\* the popup's second fetch got no response after a first one was answered,
\* and the quota check of a hard-blocking page with quota 1 got no response
C23_Witness ==
  /\ app.lastFetch = "missing" /\ app.errors = 1
  /\ app.sent = 2 /\ app.fetching = 0 /\ app.clearing = 0
  /\ app.domains = <<>> /\ app.alerts = 0
  /\ page.lastCheck.path = "quotaFailed"
  /\ page.quotaEnabled /\ page.hardBlockEnabled /\ page.quota = Num(1)
  /\ page.hardCalls = 0 /\ page.softCalls = 0

(***************************************************************************)
(* Properties of the configuration toggles.                                *)
(***************************************************************************)
\* the step is the page's quota check starting (the 1800 ms timer)
QuotaCheckStarts ==
  page.phase = "live" /\ page.quotaPath = "timer" /\ page'.quotaPath # "timer"

\* the step is the quota check's response callback with a count
QuotaCheckAnswered ==
  page.phase = "live" /\ page.quotaPath = "request" /\ page'.lastCheck.path = "quota"

\* C25: after a toggleQuota or toggleHardBlock message is delivered to a loaded
\* page, its next quota check uses the delivered value: it does not run when
\* the quota was switched off, runs when it was switched on, and does not
\* hard-block when hard blocking was switched off.
C25_TogglesObserved ==
  [][ /\ (QuotaCheckStarts /\ page.received.toggleQuota = "false") =>
           page'.quotaPath = "done"
      /\ (QuotaCheckStarts /\ page.received.toggleQuota = "true") =>
           page'.quotaPath = "request"
      /\ (QuotaCheckAnswered /\ page.received.toggleHardBlock = "false") =>
           ~page'.lastCheck.hard ]_vars

(***************************************************************************)
(* Properties of the quota evaluation after a visit.                       *)
(***************************************************************************)
\* the day's recorded visits of a domain (every stored visit is of today)
StoredToday(d) == IF d \in DOMAIN domains THEN domains[d].visitCount ELSE 0

\* C26: the page a navigation loads evaluates the quota of its domain: with
\* the quota switched on the check is scheduled at load, its answer counts
\* every visit recorded so far, the visit that loaded the page included, and
\* a count above maxPerDay is met with the notification or the overlay.
C26_VisitIsEvaluated ==
  (page.phase = "live" /\ page.settingsLoaded /\ page.quotaEnabled) =>
    /\ page.quotaPath \in {"timer", "request", "done"}
    /\ page.lastCheck.path = "quota" =>
         /\ txs = <<>>
         /\ page.lastCheck.count = StoredToday(Hostname)
         /\ (PositiveQuota(page.quota) /\ StoredToday(Hostname) > page.quota.number) =>
              page.lastCheck.soft \/ page.lastCheck.hard

\* the accepted visit is the second of the day, the quota is 1 and the check
\* of the page it loaded answered 2 and showed the notification
C26_Witness ==
  /\ nav.delivered /\ Tracks(nav.details)
  /\ StoredToday("a.com") = 2
  /\ page.phase = "live" /\ page.quota = Num(1)
  /\ page.lastCheck.path = "quota" /\ page.lastCheck.count = 2
  /\ page.lastCheck.soft

(***************************************************************************)
(* Properties of the trackDomain message and of what recordVisit reports.  *)
(***************************************************************************)
\* a store call can start: the model's bounds on calls are not used up
CanStartCall == budget > 0 /\ Len(txs) + Len(opening) < MaxLive

\* C39: a trackDomain message starts a recordVisit for the domain it names in
\* every state, whatever trackingEnabled is.
C39_TrackDomainUngated ==
  CanStartCall => \A d \in Domains : ENABLED OnMessageTrackDomain(d)

\* tracking is switched off and a visit recorded for a message is stored
C39_Witness ==
  /\ ~trackingEnabled
  /\ lastDone.kind = "record" /\ lastDone.origin = "message"
  /\ lastDone.committed /\ lastDone.report = "success"
  /\ lastDone.domain \in DOMAIN domains
  /\ budget = MaxCalls - 2

\* C33: recordVisit resolves with an aggregate only when its transaction, the
\* aggregate upsert and the visit append, has committed; when the visit append
\* fails the caller gets an error.
C33_SuccessMeansCommitted ==
  (lastDone.kind = "record" /\ lastDone.promise = "resolved") =>
     /\ lastDone.committed
     /\ lastDone.failedAt = "none"

(***************************************************************************)
(* Properties of the tracking flag at startup.                             *)
(***************************************************************************)
\* the navigation passes every test of the classifier but the tracking gate
AcceptedButForGate(details) ==
  /\ IsTopLevel(details)
  /\ isUserInitiated(details)
  /\ details.url.given
  /\ UrlTracked(NewURL(details.url))

\* a recordVisit for the navigation's host has just been started
RecordStarted ==
  LET call == Call("record", NewURL(nav.details.url).hostname, "navigation")
  IN \/ opening' = Append(opening, call)
     \/ txs' = Append(txs, NewTx(call))

\* C38: the tracking flag is true until the stored setting has been loaded
\* and is the stored setting from then on; a navigation delivered before the
\* load is classified as enabled and recorded, whatever is stored.
C38_DefaultUntilLoaded ==
  [][ /\ ~storage.loaded => trackingEnabled
      /\ storage'.loaded => trackingEnabled' = NotFalse(storage'.trackingEnabled)
      /\ (nav'.seq # nav.seq /\ ~storage.loaded /\ AcceptedButForGate(nav.details)) =>
           RecordStarted ]_vars

\* tracking is stored as disabled and has been loaded so, and the visit of a
\* navigation is in the store: it was delivered before the load
C38_Witness ==
  /\ storage.trackingEnabled = "false" /\ storage.loaded /\ ~trackingEnabled
  /\ nav.delivered /\ nav.tracking
  /\ lastDone.kind = "record" /\ lastDone.origin = "navigation" /\ lastDone.committed
  /\ lastDone.domain \in DOMAIN domains

(***************************************************************************)
(* Properties of the period query on the two storage layouts.              *)
(***************************************************************************)
\* a period query (not the badge) has finished
PeriodQueryDone == query.pc = "done" /\ query.caller \in {"getDomains", "module"}

\* C35: on the aggregate-only schema a period query returns a domain exactly
\* when its aggregate's lastVisit is at or after the period's start boundary,
\* and the row is the aggregate with its lifetime visitCount unchanged.
C35_DegradedUsesLastVisit ==
  (PeriodQueryDone /\ version = AggregateOnlyVersion) =>
    \A d \in Domains :
      /\ RowsOf(d) # <<>> <=>
           /\ d \in DOMAIN domains
           /\ domains[d].lastVisit >= StartBoundary(query.period, query.now)
      /\ RowsOf(d) # <<>> =>
           /\ Len(RowsOf(d)) = 1
           /\ RowsOf(d)[1].visitCount = domains[d].visitCount
           /\ RowsOf(d)[1].lastVisit = domains[d].lastVisit
           /\ RowsOf(d)[1].firstVisit = domains[d].firstVisit

\* what getDomainsForPeriod(period) returns from the present store at
\* instant now
ResultFor(period, now) ==
  IF version = FullSchemaVersion
    THEN PeriodResult(GetAllDomains(domains),
                      VisitsRange(visits, StartDate(period, now)))
    ELSE LegacyPeriodResult(GetAllDomains(domains), period, now, "getDomains")

\* the periods that contain a period
Wider(period) ==
  CASE period = "today" -> {"week", "month", "all"}
    [] period = "week" -> {"month", "all"}
    [] period = "month" -> {"all"}
    [] OTHER -> {}

\* C36: periods are nested: every domain a finished period query returns is
\* returned by the query of every wider period on the same store at the same
\* instant, and on the full schema with a count that is not smaller.
C36_PeriodsNested ==
  (query.pc = "done" /\ query.caller = "getDomains") =>
    \A wider \in Wider(query.period) :
      \A i \in 1..Len(query.result) :
        LET row == query.result[i]
            found == Find(ResultFor(wider, query.now), row.domain)
        IN /\ found # <<>>
           /\ version = FullSchemaVersion =>
                row.periodVisitCount <= found[1].periodVisitCount

\* a today query reports a.com once, the week query twice and the all query
\* three times
C36_Witness ==
  /\ query.pc = "done" /\ query.caller = "getDomains"
  /\ version = FullSchemaVersion /\ query.period = "today"
  /\ RowsOf("a.com") # <<>>
  /\ RowsOf("a.com")[1].periodVisitCount = 1
  /\ Find(ResultFor("week", query.now), "a.com")[1].periodVisitCount = 2
  /\ Find(ResultFor("all", query.now), "a.com")[1].periodVisitCount = 3

(***************************************************************************)
(* Properties of the count the quota check compares.                       *)
(***************************************************************************)
\* the recorded visits of d on the local calendar day of the clock
VisitsToday(d) ==
  Cardinality({i \in 1..Len(okLog[d]) : CalendarDay(okLog[d][i]) = CalendarDay(clock)})

\* the quota check has been answered and no store call is under way
QuotaChecked ==
  page.phase = "live" /\ page.lastCheck.path = "quota" /\ txs = <<>>

\* C34: the count the page's quota check compares with maxPerDay is the
\* number of visits to its domain recorded today, not the lifetime count: a
\* domain with at most maxPerDay visits today is not reported as exceeded.
C34_TodayCountCompared ==
  QuotaChecked =>
    /\ page.lastCheck.count = VisitsToday(Hostname)
    /\ (PositiveQuota(page.quota) /\ VisitsToday(Hostname) <= page.quota.number) =>
         CheckQuiet

\* C34, on the full schema
C34_TodayCountComparedFullSchema ==
  version = FullSchemaVersion => C34_TodayCountCompared

\* one visit the day before and one today, quota 1: the check is answered 1
\* and shows nothing
C34_Witness ==
  /\ version = FullSchemaVersion
  /\ QuotaChecked
  /\ page.quotaEnabled /\ page.quota = Num(1)
  /\ StoreGet(domains, "a.com").visitCount = 2
  /\ page.lastCheck.count = 1
  /\ CheckQuiet

(***************************************************************************)
(* Properties of the aggregates against the visit log.                     *)
(***************************************************************************)
\* d has an aggregate and no row in the visit log: it was recorded under the
\* aggregate-only layout
AggregateOnly(d) ==
  d \in DOMAIN domains /\ \A v \in visits : v.domain # d

\* C32: data recorded under the aggregate-only layout is aggregated by its
\* lastVisit and visitCount, never by a scan of visit rows it does not have:
\* a period query returns such a domain when its lastVisit is in the period,
\* with its visitCount.
C32_LayoutDetected ==
  PeriodQueryDone =>
    \A d \in Domains :
      (AggregateOnly(d) /\ domains[d].lastVisit >= StartBoundary(query.period, query.now)) =>
        /\ RowsOf(d) # <<>>
        /\ RowsOf(d)[1].visitCount = domains[d].visitCount

\* C31: the count an 'all' query recomputes for a domain is the visitCount of
\* its aggregate, and the domains it returns are those that have an aggregate.
C31_AggregateIsMaterializedView ==
  (PeriodQueryDone /\ query.period = "all") =>
    \A d \in Domains :
      /\ RowsOf(d) # <<>> <=> d \in DOMAIN domains
      /\ RowsOf(d) # <<>> => RowsOf(d)[1].visitCount = domains[d].visitCount

(***************************************************************************)
(* Properties of the period query beside the writers.                      *)
(***************************************************************************)
\* the domains of the aggregates that getAllDomains() handed to the query
ListedAtFirstRead == {query.aggregates[i].domain : i \in 1..Len(query.aggregates)}

\* C37: the version 2 query reads 'domains' and 'visits' in two transactions;
\* whatever commits between the two reads, the visit scan completes the
\* query, every returned row belongs to a domain that had an aggregate at
\* the first read, and its count is the number of visit rows the scan saw
\* for it, at least one.
C37_TwoReadsStayConsistent ==
  [][ScanVisits =>
       /\ query'.pc = "done"
       /\ \A i \in 1..Len(query'.result) :
            LET row == query'.result[i]
                seen == VisitCounts(VisitsRange(visits, StartDate(query.period, query.now)),
                                    row.domain)
            IN /\ row.domain \in ListedAtFirstRead
               /\ row.periodVisitCount = seen
               /\ row.periodVisitCount >= 1]_vars

\* a recordVisit committed between the reads: the scan counted more visits
\* of a domain than the aggregate read before it records
C37_Witness ==
  /\ query.pc = "done"
  /\ query.caller = "getDomains"
  /\ \E i \in 1..Len(query.aggregates) :
       /\ RowsOf(query.aggregates[i].domain) # <<>>
       /\ RowsOf(query.aggregates[i].domain)[1].periodVisitCount
            > query.aggregates[i].visitCount

\* a clearAll committed between the reads: aggregates were read, the scan
\* found no visit row, and the store is empty
C37_ClearedBetween ==
  /\ query.pc = "done"
  /\ query.aggregates # <<>>
  /\ query.result = <<>>
  /\ lastDone.kind = "clear"
  /\ lastDone.committed

====
